---- MODULE Spec2Model ----
(***************************************************************************)
(* A model of the Dream compiler front end (backend/compiler): the lexer,  *)
(* the recursive-descent parser, the scoped symbol table and the semantic  *)
(* analyzer.  Strings of the program (source text, lexemes, names) are     *)
(* sequences of one-character strings; Option<T> is a sequence of length   *)
(* zero (None) or one (Some).                                              *)
(***************************************************************************)
EXTENDS Integers, Sequences, FiniteSets, TLC

VARIABLES
    symbol_table,   \* SymbolTable { current_scope }
    st_call,        \* the last symbol-table call: <<operation, argument>>
    st_ret,         \* what that call returned
    st_saved,       \* per open scope, the lookup results seen when it was entered
    lex_source,     \* the source text handed to LexicalAnalyzer::new
    lexer,          \* LexicalAnalyzer { input, line, column }
    lex_tokens,     \* scan_tokens' local vector of tokens
    lex_starts,     \* per token, the source offset at which its scan_token call began
    lex_pc,         \* where scan_tokens is: "idle", "scan", "done" or "panic"
    parser,         \* Parser { tokens, current, errors }, with its bookkeeping
    declarations,   \* parse's local vector of declarations
    parse_turn,     \* the turns of parse's loop so far and how the last one went
    parse_pc,       \* where parse_tokens is: "idle", "parse", "done" or "panic"
    analyzer,       \* SemanticAnalyzer { symbol_table, errors, current_function }
    sem_program,    \* the Program given to analyze
    sem_children,   \* analyze's vector of the nodes of the declarations gone through
    sem_pc,         \* where analyze is: "idle", "analyze" or "done"
    compiler,       \* Compiler: the module, the builder and the variables maps
    emit_turn,      \* the declarations Compiler::compile has gone through
    emit_error,     \* the Err of compile_to_llvm_ir, if any
    emit_pc,        \* where compile_to_llvm_ir is: "idle", "emit", "done" or "failed"
    cli,            \* Cli { lex_only, parse_only, semantic_only }
    ir_written,     \* whether the LLVM IR file has been written
    exit_code       \* the exit code of the process, once it has ended

stVars == <<symbol_table, st_call, st_ret, st_saved>>
lexVars == <<lex_source, lexer, lex_tokens, lex_starts, lex_pc>>
parseVars == <<parser, declarations, parse_turn, parse_pc>>
semVars == <<analyzer, sem_program, sem_children, sem_pc>>
emitVars == <<compiler, emit_turn, emit_error, emit_pc>>
driverVars == <<cli, ir_written, exit_code>>
vars == <<stVars, lexVars, parseVars, semVars, emitVars, driverVars>>
notSt == <<lexVars, parseVars, semVars, emitVars, driverVars>>
notLex == <<stVars, parseVars, semVars, emitVars, driverVars>>
notParse == <<stVars, lexVars, semVars, emitVars, driverVars>>
notSem == <<stVars, lexVars, parseVars, emitVars, driverVars>>
notEmit == <<stVars, lexVars, parseVars, semVars, driverVars>>

(***************************************************************************)
(* Option<T>                                                               *)
(***************************************************************************)
None == <<>>
Some(x) == <<x>>
IsSome(o) == Len(o) = 1
Unwrap(o) == o[1]

(***************************************************************************)
(* Bounds of the exploration                                               *)
(***************************************************************************)
\* The scopes a symbol table may hold (the global one included).
MaxScopes == 3

\* The names given to SymbolTable::insert and SymbolTable::lookup.
StNames == {<<"x">>, <<"y">>}

\* The token streams given to the parser are those of the source texts made
\* of at most MaxTokens of these words, one space between two words.
MaxTokens == 4

ParseWords ==
    {<<"l", "e", "t">>, <<"x">>, <<":">>, <<"=">>, <<"1">>, <<";">>, <<"{">>, <<"}">>,
     <<"9", "2", "2", "3", "3", "7", "2", "0", "3", "6", "8", "5", "4", "7", "7",
       "5", "8", "0", "8">>}

\* The source texts given to the lexer are made of at most MaxPieces of
\* these pieces.
MaxPieces == 4

LexPieces ==
    {<<".">>, <<"1">>, <<"+">>, <<"a">>, <<"\n">>, <<"\"">>, <<"\\">>, <<"#">>,
     <<" ">>, <<"/">>, <<"/", "*">>, <<"*", "/">>}

\* The function bodies given to the analyzer hold at most MaxStmts statements.
MaxStmts == 2

\* The programs of declarations given to the analyzer hold at most MaxDecls
\* declarations.
MaxDecls == 2

\* The programs given to the emitter hold at most MaxEmitDecls declarations.
MaxEmitDecls == 2

\* The expressions given to the parser to be grouped hold at most
\* MaxOperators binary operators.
MaxOperators == 2

(***************************************************************************)
(* token.rs, lexer.rs                                                      *)
(***************************************************************************)
LexerToken(token_type, lexeme, line, column) ==
    [token_type |-> token_type, lexeme |-> lexeme, line |-> line, column |-> column]

Digits == {"0", "1", "2", "3", "4", "5", "6", "7", "8", "9"}

\* char::is_alphabetic, on the ASCII letters.
Letters ==
    {"a", "b", "c", "d", "e", "f", "g", "h", "i", "j", "k", "l", "m", "n", "o",
     "p", "q", "r", "s", "t", "u", "v", "w", "x", "y", "z",
     "A", "B", "C", "D", "E", "F", "G", "H", "I", "J", "K", "L", "M", "N", "O",
     "P", "Q", "R", "S", "T", "U", "V", "W", "X", "Y", "Z"}

IsDigit(c) == c \in Digits
IsAlphabetic(c) == c \in Letters
IsAlphanumeric(c) == c \in Letters \cup Digits
IsBlank(c) == c \in {" ", "\t", "\r"}

\* The keywords map built by LexicalAnalyzer::new.
Keywords ==
    {<<"l", "e", "t">>, <<"c", "o", "n", "s", "t">>, <<"f", "n">>, <<"i", "f">>,
     <<"e", "l", "s", "e">>, <<"w", "h", "i", "l", "e">>,
     <<"s", "t", "r", "u", "c", "t">>, <<"r", "e", "t", "u", "r", "n">>,
     <<"f", "o", "r">>, <<"i", "n">>}

LexicalAnalyzerNew(source) == [input |-> source, line |-> 1, column |-> 1]

\* An advance that does not start a new line at a newline character.
MutLexAdvanceNoNewline(lx) ==
    IF lx.input = <<>> THEN [lx |-> lx, ch |-> None]
    ELSE [lx |-> [input |-> Tail(lx.input), line |-> lx.line,
                  column |-> lx.column + 1],
          ch |-> Some(Head(lx.input))]

\* LexicalAnalyzer::advance: the analyzer after the call and the character.
LexAdvance(lx) ==
    IF lx.input = <<>> THEN [lx |-> lx, ch |-> None]
    ELSE LET ch == Head(lx.input)
         IN  [lx |-> [input |-> Tail(lx.input),
                      line |-> IF ch = "\n" THEN lx.line + 1 ELSE lx.line,
                      column |-> IF ch = "\n" THEN 1 ELSE lx.column + 1],
              ch |-> Some(ch)]

LexPeek(lx) == IF lx.input = <<>> THEN None ELSE Some(Head(lx.input))

LexIsAtEnd(lx) == LexPeek(lx) = None

\* LexicalAnalyzer::match_next: the analyzer after the call and the bool.
LexMatchNext(lx, expected) ==
    IF LexPeek(lx) = Some(expected)
    THEN [lx |-> LexAdvance(lx).lx, ok |-> TRUE]
    ELSE [lx |-> lx, ok |-> FALSE]

\* The loops "while let Some(&c) = self.peek() { if <c in class> { push(advance) }
\* else { break } }": the analyzer after the loop and the text with the run added.
RECURSIVE LexTakeWhile(_, _, _)
LexTakeWhile(lx, class, text) ==
    IF lx.input # <<>> /\ Head(lx.input) \in class
    THEN LexTakeWhile(LexAdvance(lx).lx, class, Append(text, Head(lx.input)))
    ELSE [lx |-> lx, text |-> text]

\* The body of a "//" comment: up to, not including, the next newline.
RECURSIVE LexLineComment(_, _)
LexLineComment(lx, text) ==
    IF lx.input # <<>> /\ Head(lx.input) # "\n"
    THEN LexLineComment(LexAdvance(lx).lx, Append(text, Head(lx.input)))
    ELSE [lx |-> lx, text |-> text]

\* The loop of a "/*" comment: the analyzer, the text and end_found.
RECURSIVE LexBlockComment(_, _)
LexBlockComment(lx, text) ==
    IF LexIsAtEnd(lx) THEN [lx |-> lx, text |-> text, end_found |-> FALSE]
    ELSE LET a == LexAdvance(lx)
             c == Unwrap(a.ch)
         IN  IF c = "*" /\ LexPeek(a.lx) = Some("/")
             THEN [lx |-> LexAdvance(a.lx).lx, text |-> text \o <<c, "/">>,
                   end_found |-> TRUE]
             ELSE LexBlockComment(a.lx, Append(text, c))

\* The decoded text of the escape sequence backslash-escaped.
LexEscape(escaped) ==
    CASE escaped = "n" -> <<"\n">>
      [] escaped = "t" -> <<"\t">>
      [] escaped = "r" -> <<"\r">>
      [] escaped = "\\" -> <<"\\">>
      [] escaped = "'" -> <<"'">>
      [] escaped = "\"" -> <<"\"">>
      [] OTHER -> <<"\\", escaped>>

\* The loop of a string literal: the analyzer, the token type and the lexeme.
RECURSIVE LexString(_, _, _, _)
LexString(lx, quote_char, string_content, lexeme_with_quotes) ==
    IF lx.input = <<>>
    THEN [lx |-> lx, token_type |-> "Invalid", lexeme |-> lexeme_with_quotes]
    ELSE LET nch == Head(lx.input)
             a == LexAdvance(lx)
         IN  IF nch = quote_char
             THEN [lx |-> a.lx, token_type |-> "String", lexeme |-> string_content]
             ELSE IF nch = "\\"
             THEN IF a.lx.input # <<>>
                  THEN LET escaped == Head(a.lx.input)
                       IN  LexString(LexAdvance(a.lx).lx, quote_char,
                                     string_content \o LexEscape(escaped),
                                     lexeme_with_quotes \o <<nch, escaped>>)
                  ELSE [lx |-> a.lx, token_type |-> "Invalid",
                        lexeme |-> Append(lexeme_with_quotes, nch)]
             ELSE IF nch = "\n"
             THEN [lx |-> lx, token_type |-> "Invalid", lexeme |-> lexeme_with_quotes]
             ELSE LexString(a.lx, quote_char, Append(string_content, nch),
                            Append(lexeme_with_quotes, nch))

\* The number branch of scan_token, after the first digit c was consumed.
LexNumber(lx, c) ==
    LET int == LexTakeWhile(lx, Digits, <<c>>)
        after == int.lx.input
    IN  IF LexPeek(int.lx) = Some(".") /\ ~(Len(after) >= 2 /\ after[2] = ".")
        THEN LET dot == LexAdvance(int.lx)
                 frac == LexTakeWhile(dot.lx, Digits, Append(int.text, "."))
                 has_decimal_part == Len(frac.text) > Len(int.text) + 1
             IN  [lx |-> frac.lx,
                  token_type |-> IF has_decimal_part THEN "Float" ELSE "Invalid",
                  lexeme |-> frac.text]
        ELSE [lx |-> int.lx, token_type |-> "Integer", lexeme |-> int.text]

\* The '.' branch of scan_token, after the first dot was consumed.
LexDot(lx) ==
    LET m2 == LexMatchNext(lx, ".")
        m3 == LexMatchNext(m2.lx, ".")
        m4 == LexMatchNext(m3.lx, "+")
    IN  IF m2.ok
        THEN IF m3.ok
             THEN IF m4.ok
                  THEN [lx |-> m4.lx, token_type |-> "DotsPlus",
                        lexeme |-> <<".", ".", ".", "+">>]
                  ELSE [lx |-> m3.lx, token_type |-> "Invalid",
                        lexeme |-> <<".", ".", ".">>]
             ELSE [lx |-> m2.lx, token_type |-> "Dot", lexeme |-> <<".">>]
        ELSE [lx |-> lx, token_type |-> "Dot", lexeme |-> <<".">>]

\* One character c, or c followed by one of the characters of `pairs` (a
\* sequence of <<second character, token type>>, tried in order).
RECURSIVE LexOneOrTwo(_, _, _, _)
LexOneOrTwo(lx, c, pairs, single) ==
    IF pairs = <<>> THEN [lx |-> lx, token_type |-> single, lexeme |-> <<c>>]
    ELSE LET m == LexMatchNext(lx, Head(pairs)[1])
         IN  IF m.ok
             THEN [lx |-> m.lx, token_type |-> Head(pairs)[2],
                   lexeme |-> <<c, Head(pairs)[1]>>]
             ELSE LexOneOrTwo(lx, c, Tail(pairs), single)

LexSingle(lx, c, token_type) == [lx |-> lx, token_type |-> token_type, lexeme |-> <<c>>]

\* The match on the first character of scan_token: the analyzer after the
\* token, the token's type and its lexeme.
LexMatch(lx, ch) ==
    CASE IsBlank(ch) ->
           LET w == LexTakeWhile(lx, {" ", "\t", "\r"}, <<ch>>)
           IN  [lx |-> w.lx, token_type |-> "Whitespace", lexeme |-> w.text]
      [] ch = "\n" -> LexSingle(lx, ch, "NewLine")
      [] ch = "/" ->
           LET s == LexMatchNext(lx, "/")
               b == LexMatchNext(lx, "*")
           IN  IF s.ok
               THEN LET c == LexLineComment(s.lx, <<"/", "/">>)
                    IN  [lx |-> c.lx, token_type |-> "CommentSingle", lexeme |-> c.text]
               ELSE IF b.ok
               THEN LET c == LexBlockComment(b.lx, <<"/", "*">>)
                    IN  [lx |-> c.lx,
                         token_type |-> IF c.end_found THEN "CommentMultiLine"
                                        ELSE "Invalid",
                         lexeme |-> c.text]
               ELSE LexSingle(lx, ch, "Slash")
      [] ch = "(" -> LexSingle(lx, ch, "LeftParen")
      [] ch = ")" -> LexSingle(lx, ch, "RightParen")
      [] ch = "{" -> LexSingle(lx, ch, "LeftBrace")
      [] ch = "}" -> LexSingle(lx, ch, "RightBrace")
      [] ch = "[" -> LexSingle(lx, ch, "LeftBracket")
      [] ch = "]" -> LexSingle(lx, ch, "RightBracket")
      [] ch = "," -> LexSingle(lx, ch, "Comma")
      [] ch = ";" -> LexSingle(lx, ch, "Semicolon")
      [] ch = ":" -> LexSingle(lx, ch, "Colon")
      [] ch = "." -> LexDot(lx)
      [] ch = "+" -> LexOneOrTwo(lx, ch, << <<"+", "Increment">> >>, "Plus")
      [] ch = "-" ->
           LexOneOrTwo(lx, ch, << <<"-", "Decrement">>, <<">", "ArrowRight">> >>, "Minus")
      [] ch = "*" -> LexSingle(lx, ch, "Asterisk")
      [] ch = "=" -> LexOneOrTwo(lx, ch, << <<"=", "DoubleEqual">> >>, "Equal")
      [] ch = ">" -> LexOneOrTwo(lx, ch, << <<"=", "GreaterEqual">> >>, "Greater")
      [] ch = "<" ->
           LexOneOrTwo(lx, ch, << <<"=", "LessEqual">>, <<">", "NotEqual">> >>, "Less")
      [] ch = "!" -> LexOneOrTwo(lx, ch, << <<"=", "NotEqual">> >>, "Exclamation")
      [] ch = "&" -> LexOneOrTwo(lx, ch, << <<"&", "DoubleAmpersand">> >>, "Ampersand")
      [] ch = "|" ->
           LexOneOrTwo(lx, ch, << <<"|", "DoubleBar">>, <<">", "PipeGreater">> >>, "Bar")
      [] ch = "@" -> LexOneOrTwo(lx, ch, << <<"*", "AtAsterisk">> >>, "Invalid")
      [] ch = "'" \/ ch = "\"" -> LexString(lx, ch, <<>>, <<ch>>)
      [] IsAlphabetic(ch) \/ ch = "_" ->
           LET w == LexTakeWhile(lx, Letters \cup Digits \cup {"_"}, <<ch>>)
           IN  [lx |-> w.lx,
                token_type |-> IF w.text \in Keywords THEN "Keyword" ELSE "Identifier",
                lexeme |-> w.text]
      [] IsDigit(ch) -> LexNumber(lx, ch)
      [] OTHER -> LexSingle(lx, ch, "Invalid")

\* A scan_token that looks at an unrecognized character without consuming it.
MutScanTokenPeekInvalid(lx) ==
    LET a == LexAdvance(lx)
    IN  IF a.ch = None THEN [panic |-> TRUE, lx |-> lx, token |-> None]
        ELSE LET r == LexMatch(a.lx, Unwrap(a.ch))
             IN  [panic |-> FALSE,
                  lx |-> IF r.token_type = "Invalid" /\ Len(r.lexeme) = 1
                         THEN lx ELSE r.lx,
                  token |-> Some(LexerToken(r.token_type, r.lexeme, lx.line, lx.column))]

\* LexicalAnalyzer::scan_token: the analyzer after the call and the token, or
\* the panic of a call at the end of the input.
ScanToken(lx) ==
    LET a == LexAdvance(lx)
    IN  IF a.ch = None THEN [panic |-> TRUE, lx |-> lx, token |-> None]
        ELSE LET r == LexMatch(a.lx, Unwrap(a.ch))
             IN  [panic |-> FALSE, lx |-> r.lx,
                  token |-> Some(LexerToken(r.token_type, r.lexeme, lx.line, lx.column))]

\* The EndOfFile token scan_tokens appends after its loop.
LexEofToken(lx, tokens) ==
    LET last_is_newline ==
            /\ tokens # <<>>
            /\ tokens[Len(tokens)].lexeme = <<"\n">>
            /\ tokens[Len(tokens)].token_type = "NewLine"
        eof_column ==
            IF last_is_newline THEN 1
            ELSE IF lx.line = 1 /\ lx.column = 1 /\ tokens = <<>> THEN 1
            ELSE lx.column
    IN  LexerToken("EndOfFile", <<>>, lx.line, eof_column)

\* LexicalAnalyzer::scan_tokens, from the analyzer's state to the tokens.
RECURSIVE ScanLoop(_, _)
ScanLoop(lx, tokens) ==
    IF LexIsAtEnd(lx) THEN Append(tokens, LexEofToken(lx, tokens))
    ELSE LET r == ScanToken(lx) IN ScanLoop(r.lx, Append(tokens, Unwrap(r.token)))

ScanTokens(source) == ScanLoop(LexicalAnalyzerNew(source), <<>>)

(***************************************************************************)
(* symbol_table.rs                                                         *)
(***************************************************************************)
SymVariable(name, type_, line, column, value) ==
    [kind |-> "Variable", name |-> name, type_ |-> type_, defined |-> TRUE,
     line |-> line, column |-> column, value |-> value]

SymConstant(name, type_, line, column, value) ==
    [kind |-> "Constant", name |-> name, type_ |-> type_,
     line |-> line, column |-> column, value |-> value]

SymFunction(name, parameters, return_type, line, column) ==
    [kind |-> "Function", name |-> name, parameters |-> parameters,
     return_type |-> return_type, line |-> line, column |-> column]

SymStruct(name, fields, line, column) ==
    [kind |-> "Struct", name |-> name, fields |-> fields,
     line |-> line, column |-> column]

SymbolGetType(s) ==
    CASE s.kind = "Variable" -> s.type_
      [] s.kind = "Function" -> s.return_type
      [] s.kind = "Struct" -> "Void"
      [] s.kind = "Constant" -> s.type_

SymbolIsConstant(s) == s.kind = "Constant"

\* HashMap::insert: the map with k bound to v, and the value k was bound to.
HashMapInsert(m, k, v) ==
    [map |-> [x \in (DOMAIN m) \cup {k} |-> IF x = k THEN v ELSE m[x]],
     old |-> IF k \in DOMAIN m THEN Some(m[k]) ELSE None]

HashMapGet(m, k) == IF k \in DOMAIN m THEN Some(m[k]) ELSE None

ScopeNew(parent, name) ==
    [symbols |-> <<>>,
     parent |-> parent,
     children |-> <<>>,
     name |-> name,
     level |-> IF IsSome(parent) THEN Unwrap(parent).level + 1 ELSE 0]

\* A Scope::insert that refuses a name bound anywhere on the scope chain.
RECURSIVE ScopeLookup(_, _)
MutScopeInsertChain(scope, name, symbol) ==
    LET r == HashMapInsert(scope.symbols, name, symbol)
    IN  [scope |-> [scope EXCEPT !.symbols = r.map],
         ret |-> ScopeLookup(scope, name) = None]

\* Scope::insert: the scope after the call and the returned bool.
ScopeInsert(scope, name, symbol) ==
    LET r == HashMapInsert(scope.symbols, name, symbol)
    IN  [scope |-> [scope EXCEPT !.symbols = r.map], ret |-> r.old = None]

\* A Scope::lookup that asks the enclosing scopes first.
MutScopeLookupOuterFirst(scope, name) ==
    LET up == IF IsSome(scope.parent)
              THEN ScopeLookup(Unwrap(scope.parent), name) ELSE None
    IN  IF IsSome(up) THEN up ELSE HashMapGet(scope.symbols, name)

ScopeLookup(scope, name) ==
    LET here == HashMapGet(scope.symbols, name)
    IN  IF IsSome(here) THEN here
        ELSE IF IsSome(scope.parent) THEN ScopeLookup(Unwrap(scope.parent), name)
        ELSE None

SymbolTableNew == [current_scope |-> ScopeNew(None, <<"global">>)]

EnterScope(st, name) ==
    [current_scope |-> ScopeNew(Some(st.current_scope), name)]

\* A leave_scope that keeps the left scope's symbols visible in the parent.
MutLeaveScopeMerge(st) ==
    IF IsSome(st.current_scope.parent)
    THEN LET parent == Unwrap(st.current_scope.parent)
             child == [st.current_scope EXCEPT !.parent = None]
             merged == [x \in (DOMAIN parent.symbols) \cup (DOMAIN child.symbols) |->
                          IF x \in DOMAIN child.symbols THEN child.symbols[x]
                          ELSE parent.symbols[x]]
         IN  [current_scope |-> [parent EXCEPT !.children = Append(@, child),
                                               !.symbols = merged]]
    ELSE st

\* A leave_scope that goes back to the parent without keeping the scope left
\* among its children.
MutLeaveScopeForget(st) ==
    IF IsSome(st.current_scope.parent)
    THEN [current_scope |-> Unwrap(st.current_scope.parent)]
    ELSE st

LeaveScope(st) ==
    IF IsSome(st.current_scope.parent)
    THEN LET parent == Unwrap(st.current_scope.parent)
             child == [st.current_scope EXCEPT !.parent = None]
         IN  [current_scope |-> [parent EXCEPT !.children = Append(@, child)]]
    ELSE st

\* SymbolTable::insert: the table after the call and the returned bool.
SymbolTableInsert(st, name, symbol) ==
    LET r == ScopeInsert(st.current_scope, name, symbol)
    IN  [st |-> [current_scope |-> r.scope], ret |-> r.ret]

SymbolTableLookup(st, name) == ScopeLookup(st.current_scope, name)

(***************************************************************************)
(* ast.rs, parser.rs                                                       *)
(*                                                                         *)
(* A parsing method is an operator from the parser to a result             *)
(* [ok, panic, p, node]: the parser after the call and, when ok, the node  *)
(* the method returned, else the SyntaxError it returned; panic marks a    *)
(* call that unwound instead of returning.  An enum value is a record      *)
(* tagged by kind.  Three fields of the parser record are bookkeeping and  *)
(* not fields of Parser: discarded counts the Err results the two          *)
(* declaration loops dropped, skipped the tokens synchronize moved over,   *)
(* and stalled tells that a turn of a block loop left the cursor in place. *)
(***************************************************************************)
Variant(kind, value) == [kind |-> kind, value |-> value]

UnexpectedToken(msg, line, column) ==
    [kind |-> "UnexpectedToken", msg |-> msg, line |-> line, column |-> column]

UnexpectedEndOfFile == [kind |-> "UnexpectedEndOfFile"]
InvalidAssignmentTarget == [kind |-> "InvalidAssignmentTarget"]
MissingInKeyword == [kind |-> "MissingInKeyword"]

\* Identifier { name, line, column } of a token.
Identifier(token) ==
    [name |-> token.lexeme, line |-> token.line, column |-> token.column]

Binary(left, op, right) == [kind |-> "Binary", left |-> left, op |-> op, right |-> right]

Ok(p, node) == [ok |-> TRUE, panic |-> FALSE, p |-> p, node |-> node]
Err(p, err) == [ok |-> FALSE, panic |-> FALSE, p |-> p, node |-> err]
Panic(p) == [ok |-> FALSE, panic |-> TRUE, p |-> p, node |-> None]

\* The element of a set of one element; with it a value is computed once
\* and named, as a let binding of the source names it.
Only(S) == CHOOSE x \in S : TRUE

\* The ? operator: the rest f of a method goes on with the Ok result r, and
\* an Err or a panic is returned as it is.
Then(r, f(_)) == Only({IF v.ok THEN f(v) ELSE v : v \in {r}})

\* Result::map with an enum constructor.
MapOk(r, kind) == IF r.ok THEN [r EXCEPT !.node = Variant(kind, @)] ELSE r

\* self.errors.push(err)
PushError(p, err) == [p EXCEPT !.errors = Append(@, err)]

ParserNew(tokens) ==
    [tokens |-> tokens, current |-> 0, errors |-> <<>>,
     discarded |-> 0, skipped |-> 0, stalled |-> FALSE]

peek(p) == IF p.current < Len(p.tokens) THEN Some(p.tokens[p.current + 1]) ELSE None

previous(p) == IF p.current >= 1 THEN Some(p.tokens[p.current]) ELSE None

is_at_end(p) == peek(p) = None \/ Unwrap(peek(p)).token_type = "EndOfFile"

\* advance: the parser after the call; the call returns previous() of it.
advance(p) == IF ~is_at_end(p) THEN [p EXCEPT !.current = @ + 1] ELSE p

check(p, token_type) == peek(p) # None /\ Unwrap(peek(p)).token_type = token_type

\* peek().map_or(false, |t| t.lexeme == lexeme)
peek_lexeme_is(p, lexeme) == peek(p) # None /\ Unwrap(peek(p)).lexeme = lexeme

match_token(p, token_type) ==
    IF check(p, token_type) THEN [ok |-> TRUE, p |-> advance(p)]
    ELSE [ok |-> FALSE, p |-> p]

consume(p, token_type, error_msg) ==
    IF check(p, token_type) THEN Ok(advance(p), Unwrap(previous(advance(p))))
    ELSE IF peek(p) # None
    THEN Only({Err(PushError(p, err), err) :
               err \in {UnexpectedToken(<<error_msg, Unwrap(peek(p)).lexeme>>,
                                        Unwrap(peek(p)).line, Unwrap(peek(p)).column)}})
    ELSE Err(PushError(p, UnexpectedEndOfFile), UnexpectedEndOfFile)

\* The lexemes synchronize stops in front of.
SyncKeywords ==
    {<<"f", "n">>, <<"l", "e", "t">>, <<"c", "o", "n", "s", "t">>,
     <<"r", "e", "t", "u", "r", "n">>, <<"i", "f">>, <<"w", "h", "i", "l", "e">>,
     <<"f", "o", "r">>, <<"s", "t", "r", "u", "c", "t">>, <<"d", "o">>,
     <<"u", "n", "t", "i", "l">>}

\* An advance of synchronize, counted in skipped.
SyncAdvance(p) ==
    [advance(p) EXCEPT !.skipped = @ + (advance(p).current - p.current)]

RECURSIVE SyncLoop(_)

\* A synchronize without its first advance.
MutSynchronizeNoAdvance(p) == SyncLoop(p)

SyncLoop(p) ==
    IF is_at_end(p) THEN p
    ELSE IF previous(p) # None /\ Unwrap(previous(p)).token_type = "Semicolon" THEN p
    ELSE IF peek(p) # None /\ Unwrap(peek(p)).lexeme \in SyncKeywords THEN p
    ELSE SyncLoop(SyncAdvance(p))

synchronize(p) == SyncLoop(SyncAdvance(p))

\* The Err arm of the declaration loops: the result is dropped and the
\* parser synchronizes.
Recover(p) == synchronize([p EXCEPT !.discarded = @ + 1])

\* str::to_lowercase, on the ASCII letters.
UpperCase ==
    <<"A", "B", "C", "D", "E", "F", "G", "H", "I", "J", "K", "L", "M", "N", "O",
      "P", "Q", "R", "S", "T", "U", "V", "W", "X", "Y", "Z">>

LowerCase ==
    <<"a", "b", "c", "d", "e", "f", "g", "h", "i", "j", "k", "l", "m", "n", "o",
      "p", "q", "r", "s", "t", "u", "v", "w", "x", "y", "z">>

ToLowercase(s) ==
    [i \in 1..Len(s) |->
        IF \E k \in 1..Len(UpperCase) : UpperCase[k] = s[i]
        THEN LowerCase[CHOOSE k \in 1..Len(UpperCase) : UpperCase[k] = s[i]]
        ELSE s[i]]

\* The type names type_annotation knows, in lower case.
TypeNames ==
    [Int |-> <<"i", "n", "t">>, Float |-> <<"f", "l", "o", "a", "t">>,
     String |-> <<"s", "t", "r", "i", "n", "g">>, Bool |-> <<"b", "o", "o", "l">>,
     Void |-> <<"v", "o", "i", "d">>]

\* str::parse::<i64> of a run of decimal digits: the value as its digits
\* without leading zeros, or None when it does not fit 64 bits.
I64Max ==
    <<"9", "2", "2", "3", "3", "7", "2", "0", "3", "6", "8", "5", "4", "7", "7",
      "5", "8", "0", "7">>

DigitValue(c) == CHOOSE v \in 0..9 : <<"0", "1", "2", "3", "4", "5", "6", "7", "8", "9">>[v + 1] = c

RECURSIVE StripZeros(_)
StripZeros(digits) ==
    IF Len(digits) > 1 /\ Head(digits) = "0" THEN StripZeros(Tail(digits)) ELSE digits

ParseI64(lexeme) ==
    LET d == StripZeros(lexeme)
        above ==
            \E i \in 1..Len(I64Max) :
                /\ Len(d) = Len(I64Max)
                /\ DigitValue(d[i]) > DigitValue(I64Max[i])
                /\ \A j \in 1..(i - 1) : d[j] = I64Max[j]
    IN  IF lexeme = <<>> \/ Len(d) > Len(I64Max) \/ above THEN None ELSE Some(d)

\* str::parse::<f64> of digits '.' digits: the value as its digits without
\* leading zeros of the integer part and trailing zeros of the fraction.
RECURSIVE StripTrailingZeros(_)
StripTrailingZeros(digits) ==
    IF digits # <<>> /\ digits[Len(digits)] = "0"
    THEN StripTrailingZeros(SubSeq(digits, 1, Len(digits) - 1))
    ELSE digits

ParseF64(lexeme) ==
    LET dot == CHOOSE i \in 1..Len(lexeme) : lexeme[i] = "."
    IN  IF \E i \in 1..Len(lexeme) : lexeme[i] = "."
        THEN Some(<<StripZeros(SubSeq(lexeme, 1, dot - 1)),
                    StripTrailingZeros(SubSeq(lexeme, dot + 1, Len(lexeme)))>>)
        ELSE None

\* The binary operators of each precedence level, pipe (1) to factor (8);
\* a BinaryOp is named as the token type it is parsed from.
BinaryLevels ==
    <<{"Pipe"}, {"Spread"}, {"DoubleBar"}, {"DoubleAmpersand"},
      {"DoubleEqual", "NotEqual"},
      {"Greater", "GreaterEqual", "Less", "LessEqual"},
      {"Plus", "Minus"}, {"Asterisk", "Slash"}>>

RECURSIVE declaration(_)
RECURSIVE statement(_)
RECURSIVE block_statement(_)
RECURSIVE BlockLoop(_, _)
RECURSIVE if_statement(_)
RECURSIVE expression(_)
RECURSIVE assignment(_)
RECURSIVE binary_level(_, _)
RECURSIVE BinaryRest(_, _, _)
RECURSIVE unary(_)
RECURSIVE postfix(_)
RECURSIVE PostfixLoop(_, _)
RECURSIVE ExpressionList(_, _)
RECURSIVE FieldLoop(_, _, _)
RECURSIVE primary(_)
RECURSIVE ParametersLoop(_, _)
RECURSIVE StructFieldLoop(_, _)
RECURSIVE struct_instantiation(_)

type_annotation(p) ==
    Then(consume(p, "Identifier", "Se esperaba un nombre de tipo."), LAMBDA r :
        LET type_str == ToLowercase(r.node.lexeme)
        IN  IF \E t \in DOMAIN TypeNames : TypeNames[t] = type_str
            THEN Ok(r.p, CHOOSE t \in DOMAIN TypeNames : TypeNames[t] = type_str)
            ELSE Err(r.p, UnexpectedToken(<<"Tipo desconocido", r.node.lexeme>>,
                                          r.node.line, r.node.column)))

\* The loop of parameters: name ':' type, while a comma follows.
ParametersLoop(p, params) ==
    Then(consume(p, "Identifier", "Se esperaba nombre de parametro."), LAMBDA r1 :
    Then(consume(r1.p, "Colon", "Se esperaba ':' despues del nombre del parametro."), LAMBDA r2 :
    Then(type_annotation(r2.p), LAMBDA r3 :
        LET acc == Append(params, [name |-> Identifier(r1.node), param_type |-> r3.node])
        IN  IF check(r3.p, "Comma") THEN ParametersLoop(advance(r3.p), acc)
            ELSE Ok(r3.p, acc))))

parameters(p) ==
    IF ~check(p, "RightParen") THEN ParametersLoop(p, <<>>) ELSE Ok(p, <<>>)

function_declaration(p) ==
    Then(consume(p, "Identifier", "Se esperaba un nombre de funcion."), LAMBDA r1 :
    Then(consume(r1.p, "LeftParen", "Se esperaba '(' despues del nombre de funcion."), LAMBDA r2 :
    Then(parameters(r2.p), LAMBDA r3 :
    Then(consume(r3.p, "RightParen", "Se esperaba ')' despues de los parametros."), LAMBDA r4 :
    Then(consume(r4.p, "ArrowRight", "Se esperaba '->' para el tipo de retorno."), LAMBDA r5 :
    Then(type_annotation(r5.p), LAMBDA r6 :
    Then(block_statement(r6.p), LAMBDA r7 :
        Ok(r7.p, [name |-> Identifier(r1.node), parameters |-> r3.node,
                  return_type |-> r6.node, body |-> r7.node]))))))))

\* The optional ': type' of a constant or variable declaration.
OptionalType(p) ==
    IF check(p, "Colon")
    THEN Then(type_annotation(advance(p)), LAMBDA r : Ok(r.p, Some(r.node)))
    ELSE Ok(p, None)

constant_declaration(p) ==
    Then(consume(p, "Identifier", "Se esperaba un nombre para la constante."), LAMBDA r1 :
    Then(OptionalType(r1.p), LAMBDA r2 :
    Then(consume(r2.p, "Equal", "Se esperaba '=' despues del nombre de la constante."), LAMBDA r3 :
    Then(expression(r3.p), LAMBDA r4 :
    Then(consume(r4.p, "Semicolon", "Se esperaba ';' despues de la declaracion de la constante."),
         LAMBDA r5 :
        Ok(r5.p, [identifier |-> Identifier(r1.node),
                  const_type |-> r2.node,
                  value |-> r4.node]))))))

variable_declaration(p) ==
    Then(consume(p, "Identifier", "Se esperaba un nombre para la variable."), LAMBDA r1 :
    Then(OptionalType(r1.p), LAMBDA r2 :
    Then(consume(r2.p, "Equal", "Se esperaba '=' en la declaracion de la variable."), LAMBDA r3 :
    Then(expression(r3.p), LAMBDA r4 :
    Then(consume(r4.p, "Semicolon", "Se esperaba ';' despues de la declaracion de la variable."),
         LAMBDA r5 :
        Ok(r5.p, [identifier |-> Identifier(r1.node),
                  var_type |-> r2.node,
                  value |-> r4.node]))))))

\* The loop of struct_declaration over the fields.
StructFieldLoop(p, fields) ==
    IF check(p, "RightBrace") \/ is_at_end(p) THEN Ok(p, fields) ELSE
    Then(consume(p, "Identifier", "Se esperaba un nombre de campo."), LAMBDA r1 :
    Then(consume(r1.p, "Colon", "Se esperaba ':' despues del nombre de campo."), LAMBDA r2 :
    Then(type_annotation(r2.p), LAMBDA r3 :
        LET acc == Append(fields, [name |-> Identifier(r1.node), field_type |-> r3.node])
        IN  IF check(r3.p, "RightBrace") THEN StructFieldLoop(r3.p, acc)
            ELSE IF check(r3.p, "Comma") THEN StructFieldLoop(advance(r3.p), acc)
            ELSE IF peek(r3.p) = None THEN Panic(r3.p)
            ELSE Err(r3.p, UnexpectedToken(
                     <<"Se esperaba ',' o '}' despues del campo de struct",
                       Unwrap(peek(r3.p)).lexeme>>,
                     Unwrap(peek(r3.p)).line, Unwrap(peek(r3.p)).column)))))

struct_declaration(p) ==
    Then(consume(p, "Identifier", "Se esperaba un nombre para el struct."), LAMBDA r1 :
    Then(consume(r1.p, "LeftBrace", "Se esperaba '{' despues del nombre del struct."), LAMBDA r2 :
    Then(StructFieldLoop(r2.p, <<>>), LAMBDA r3 :
    Then(consume(r3.p, "RightBrace", "Se esperaba '}' al final del struct."), LAMBDA r4 :
        Ok(r4.p, [name |-> Identifier(r1.node), fields |-> r3.node])))))

declaration(p) ==
    IF check(p, "Keyword") /\ peek_lexeme_is(p, <<"f", "n">>)
    THEN MapOk(function_declaration(advance(p)), "Function")
    ELSE IF check(p, "Keyword") /\ peek_lexeme_is(p, <<"l", "e", "t">>)
    THEN MapOk(variable_declaration(advance(p)), "Variable")
    ELSE IF check(p, "Keyword") /\ peek_lexeme_is(p, <<"c", "o", "n", "s", "t">>)
    THEN MapOk(constant_declaration(advance(p)), "Constant")
    ELSE IF check(p, "Keyword") /\ peek_lexeme_is(p, <<"s", "t", "r", "u", "c", "t">>)
    THEN MapOk(struct_declaration(advance(p)), "Struct")
    ELSE MapOk(statement(p), "Statement")

\* A turn of a declaration loop that began at p, got r from declaration() and
\* left the parser q, moved the cursor: a parsed declaration consumed a
\* token, or synchronize did unless the failure was at the end, and the turn
\* as a whole ends further than it began.
TurnAdvances(p, r, q) ==
    /\ q.current > p.current
    /\ r.ok => r.p.current > p.current
    /\ ~r.ok => (q.current > r.p.current \/ is_at_end(r.p))

\* One turn of a declaration loop on the result r of declaration(): the
\* parser after it and the declarations, the new one pushed if there is one.
Turn(r, decls) ==
    IF r.ok THEN Ok(r.p, Append(decls, r.node)) ELSE Ok(Recover(r.p), decls)

\* The loop of block_statement.  A turn that does not move the cursor is
\* recorded in stalled and ends the loop here (in the source it would repeat).
BlockLoop(p, statements) ==
    IF check(p, "RightBrace") \/ is_at_end(p) THEN Ok(p, statements) ELSE
    Only({IF r.panic THEN r
          ELSE Only({IF ~TurnAdvances(p, r, t.p)
                     THEN Ok([t.p EXCEPT !.stalled = TRUE], t.node)
                     ELSE BlockLoop(t.p, t.node) : t \in {Turn(r, statements)}})
          : r \in {declaration(p)}})

block_statement(p) ==
    Then(consume(p, "LeftBrace", "Se esperaba '{' para iniciar un bloque."), LAMBDA r1 :
    Then(BlockLoop(r1.p, <<>>), LAMBDA r2 :
    Then(consume(r2.p, "RightBrace", "Se esperaba '}' para cerrar un bloque."), LAMBDA r3 :
        Ok(r3.p, [statements |-> r2.node]))))

return_statement(p) ==
    Then(expression(p), LAMBDA r1 :
    Then(consume(r1.p, "Semicolon", "Se esperaba ';' despues del valor de retorno."), LAMBDA r2 :
        Ok(r2.p, [value |-> r1.node])))

logical_or(p) == binary_level(p, 3)

\* The optional else branch of if_statement, after the then block.
ElseBranch(p) ==
    IF ~peek_lexeme_is(p, <<"e", "l", "s", "e">>) THEN Ok(p, None)
    ELSE IF peek_lexeme_is(advance(p), <<"i", "f">>)
    THEN Then(if_statement(advance(advance(p))), LAMBDA r :
             Ok(r.p, Some(Variant("If", r.node))))
    ELSE Then(block_statement(advance(p)), LAMBDA r :
             Ok(r.p, Some(Variant("Block", Variant("Block", r.node)))))

if_statement(p) ==
    Then(consume(p, "LeftParen", "Se esperaba '(' despues de 'if'."), LAMBDA r1 :
    Then(logical_or(r1.p), LAMBDA r2 :
    Then(consume(r2.p, "RightParen", "Se esperaba ')' despues de la condicion."), LAMBDA r3 :
    Then(block_statement(r3.p), LAMBDA r4 :
    Then(ElseBranch(r4.p), LAMBDA r5 :
        Ok(r5.p, [condition |-> r2.node, then_block |-> r4.node,
                  else_block |-> r5.node]))))))

while_statement(p) ==
    Then(consume(p, "LeftParen", "Se esperaba '(' despues de 'while'."), LAMBDA r1 :
    Then(logical_or(r1.p), LAMBDA r2 :
    Then(consume(r2.p, "RightParen", "Se esperaba ')' despues de la condicion."), LAMBDA r3 :
    Then(block_statement(r3.p), LAMBDA r4 :
        Ok(r4.p, [condition |-> r2.node, body |-> r4.node])))))

\* The 'until' keyword do_until_statement expects after the block.
ConsumeUntil(p) ==
    IF peek(p) = None THEN Err(PushError(p, UnexpectedEndOfFile), UnexpectedEndOfFile)
    ELSE IF check(p, "Keyword") /\ peek_lexeme_is(p, <<"u", "n", "t", "i", "l">>)
    THEN Ok(advance(p), Unwrap(peek(p)))
    ELSE Only({Err(PushError(p, err), err) :
               err \in {UnexpectedToken(
                           <<"Se esperaba la palabra clave 'until' despues del bloque 'do'",
                             Unwrap(peek(p)).lexeme>>,
                           Unwrap(peek(p)).line, Unwrap(peek(p)).column)}})

do_until_statement(p) ==
    Then(block_statement(p), LAMBDA r1 :
    Then(ConsumeUntil(r1.p), LAMBDA r2 :
    Then(logical_or(r2.p), LAMBDA r3 :
    Then(consume(r3.p, "Semicolon", "Se esperaba ';' despues de la sentencia do-until."),
         LAMBDA r4 :
        Ok(r4.p, [body |-> r1.node, condition |-> r3.node])))))

\* The token for_statement takes for the 'in' keyword: advance(), whatever
\* the token, and its check.
ConsumeIn(p) ==
    IF previous(advance(p)) = None THEN Err(advance(p), UnexpectedEndOfFile)
    ELSE IF Unwrap(previous(advance(p))).token_type # "Keyword"
            \/ Unwrap(previous(advance(p))).lexeme # <<"i", "n">>
    THEN Err(advance(p), MissingInKeyword)
    ELSE Ok(advance(p), Unwrap(previous(advance(p))))

for_statement(p) ==
    Then(consume(p, "Identifier", "Se esperaba una variable de bucle."), LAMBDA r1 :
    Then(ConsumeIn(r1.p), LAMBDA r2 :
    Then(expression(r2.p), LAMBDA r3 :
    Then(block_statement(r3.p), LAMBDA r4 :
        Ok(r4.p, [variable |-> Identifier(r1.node), iterable |-> r3.node,
                  body |-> r4.node])))))

statement(p) ==
    IF peek_lexeme_is(p, <<"d", "o">>) THEN MapOk(do_until_statement(advance(p)), "DoUntil")
    ELSE IF peek_lexeme_is(p, <<"i", "f">>) THEN MapOk(if_statement(advance(p)), "If")
    ELSE IF peek_lexeme_is(p, <<"w", "h", "i", "l", "e">>)
    THEN MapOk(while_statement(advance(p)), "While")
    ELSE IF peek_lexeme_is(p, <<"r", "e", "t", "u", "r", "n">>)
    THEN MapOk(return_statement(advance(p)), "Return")
    ELSE IF peek_lexeme_is(p, <<"f", "o", "r">>) THEN MapOk(for_statement(advance(p)), "For")
    ELSE IF check(p, "LeftBrace") THEN MapOk(block_statement(p), "Block")
    ELSE Then(expression(p), LAMBDA r1 :
         Then(consume(r1.p, "Semicolon", "Se esperaba ';' despues de la expresion."), LAMBDA r2 :
             Ok(r2.p, Variant("Expression", r1.node))))

expression(p) == assignment(p)

pipe(p) == binary_level(p, 1)

assignment(p) ==
    Then(pipe(p), LAMBDA r1 :
        IF check(r1.p, "Equal")
        THEN IF r1.node.kind = "Identifier"
             THEN Then(assignment(advance(r1.p)), LAMBDA r2 :
                      Ok(r2.p, [kind |-> "Assignment", target |-> r1.node.value,
                                value |-> r2.node]))
             ELSE Err(advance(r1.p), InvalidAssignmentTarget)
        ELSE IF check(r1.p, "Swap")
        THEN IF r1.node.kind = "Identifier"
             THEN Then(assignment(advance(r1.p)), LAMBDA r2 :
                      IF r2.node.kind = "Identifier"
                      THEN Ok(r2.p, Binary(r1.node, "Swap", r2.node))
                      ELSE Err(r2.p, InvalidAssignmentTarget))
             ELSE Err(advance(r1.p), InvalidAssignmentTarget)
        ELSE r1)

\* The operand of a binary level: the next level, unary below factor.
BinaryOperand(p, level) ==
    IF level = Len(BinaryLevels) THEN unary(p) ELSE binary_level(p, level + 1)

\* BinaryRest with the right operand parsed at the level of the operator
\* itself: the operators of a level group to the right.
MutBinaryRestRightAssoc(p, expr, level) ==
    IF peek(p) # None /\ Unwrap(peek(p)).token_type \in BinaryLevels[level]
    THEN Then(binary_level(advance(p), level), LAMBDA r :
             Ok(r.p, Binary(expr, Unwrap(peek(p)).token_type, r.node)))
    ELSE Ok(p, expr)

\* The while loop of pipe, spread, logical_or, logical_and, equality,
\* comparison, term and factor.
BinaryRest(p, expr, level) ==
    IF peek(p) # None /\ Unwrap(peek(p)).token_type \in BinaryLevels[level]
    THEN Then(BinaryOperand(advance(p), level), LAMBDA r :
             BinaryRest(r.p, Binary(expr, Unwrap(peek(p)).token_type, r.node), level))
    ELSE Ok(p, expr)

binary_level(p, level) ==
    Then(BinaryOperand(p, level), LAMBDA r : BinaryRest(r.p, r.node, level))

unary(p) ==
    IF check(p, "Minus") \/ check(p, "Exclamation")
    THEN Then(unary(advance(p)), LAMBDA r :
             Ok(r.p, [kind |-> "Unary", op |-> Unwrap(peek(p)).token_type, expr |-> r.node]))
    ELSE IF check(p, "Splat") THEN MapOk(unary(advance(p)), "Splat")
    ELSE postfix(p)

\* expression (',' expression)*, of finish_call and of the array literal.
ExpressionList(p, elements) ==
    Then(expression(p), LAMBDA r :
        IF check(r.p, "Comma")
        THEN ExpressionList(advance(r.p), Append(elements, r.node))
        ELSE Ok(r.p, Append(elements, r.node)))

finish_call(p, callee) ==
    Then(IF ~check(p, "RightParen") THEN ExpressionList(p, <<>>) ELSE Ok(p, <<>>), LAMBDA r1 :
    Then(consume(r1.p, "RightParen", "Se esperaba ')' despues de los argumentos."), LAMBDA r2 :
        Ok(r2.p, [kind |-> "FunctionCall", function |-> callee, arguments |-> r1.node])))

\* The rewriting of target++ and target-- by postfix.
IncrementOf(target, op_type) ==
    [kind |-> "Assignment", target |-> target,
     value |-> Binary(Variant("Identifier", target),
                      IF op_type = "Increment" THEN "Plus" ELSE "Minus",
                      Variant("Literal", Variant("Int", <<"1">>)))]

PostfixLoop(p, expr) ==
    IF check(p, "LeftParen")
    THEN Then(finish_call(advance(p), expr), LAMBDA r : PostfixLoop(r.p, r.node))
    ELSE IF check(p, "Dot")
    THEN Then(consume(advance(p), "Identifier",
                      "Se esperaba el nombre de la propiedad despues de '.'."), LAMBDA r :
             PostfixLoop(r.p, [kind |-> "MemberAccess", object |-> expr,
                               property |-> Identifier(r.node)]))
    ELSE IF check(p, "Increment") \/ check(p, "Decrement")
    THEN IF expr.kind = "Identifier"
         THEN PostfixLoop(advance(p), IncrementOf(expr.value, Unwrap(peek(p)).token_type))
         ELSE Err(advance(p), InvalidAssignmentTarget)
    ELSE Ok(p, expr)

postfix(p) == Then(primary(p), LAMBDA r : PostfixLoop(r.p, r.node))

\* The loop over the fields of an object literal (key ':' value) and of a
\* struct instantiation (key '=' value), up to the closing brace.
FieldLoop(p, fields, object) ==
    IF check(p, "RightBrace") THEN Ok(p, fields) ELSE
    Then(consume(p, "Identifier",
                 IF object THEN "Se esperaba una clave en el literal de objeto."
                 ELSE "Se esperaba un nombre de campo."), LAMBDA r1 :
    Then(IF object THEN consume(r1.p, "Colon", "Se esperaba ':' despues de la clave.")
         ELSE consume(r1.p, "Equal", "Se esperaba '=' despues del nombre del campo."),
         LAMBDA r2 :
    Then(expression(r2.p), LAMBDA r3 :
    Then(IF check(r3.p, "RightBrace") THEN Ok(r3.p, None)
         ELSE consume(r3.p, "Comma",
                      IF object THEN "Se esperaba ',' despues del valor."
                      ELSE "Se esperaba ',' despues del valor del campo."), LAMBDA r4 :
        FieldLoop(r4.p, Append(fields, <<Identifier(r1.node), r3.node>>), object)))))

struct_instantiation(p) ==
    Then(consume(p, "Identifier", "Se esperaba el nombre del struct."), LAMBDA r1 :
    Then(consume(r1.p, "LeftBrace", "Se esperaba '{' para instanciar el struct."), LAMBDA r2 :
    Then(FieldLoop(r2.p, <<>>, FALSE), LAMBDA r3 :
    Then(consume(r3.p, "RightBrace", "Se esperaba '}' al final de la instanciacion."), LAMBDA r4 :
        Ok(r4.p, [kind |-> "StructInstantiation", name |-> Identifier(r1.node),
                  fields |-> r3.node])))))

\* The literal arms of primary on the token just consumed; parse().unwrap()
\* panics on None.
LiteralOf(p, token) ==
    IF token.token_type = "Integer"
    THEN IF ParseI64(token.lexeme) = None THEN Panic(p)
         ELSE Ok(p, Variant("Literal", Variant("Int", Unwrap(ParseI64(token.lexeme)))))
    ELSE IF token.token_type = "Float"
    THEN IF ParseF64(token.lexeme) = None THEN Panic(p)
         ELSE Ok(p, Variant("Literal", Variant("Float", Unwrap(ParseF64(token.lexeme)))))
    ELSE Ok(p, Variant("Literal", Variant("String", token.lexeme)))

primary(p) ==
    IF peek_lexeme_is(p, <<"t", "r", "u", "e">>)
    THEN Ok(advance(p), Variant("Literal", Variant("Bool", TRUE)))
    ELSE IF peek_lexeme_is(p, <<"f", "a", "l", "s", "e">>)
    THEN Ok(advance(p), Variant("Literal", Variant("Bool", FALSE)))
    ELSE IF check(p, "Integer") \/ check(p, "Float") \/ check(p, "String")
    THEN LiteralOf(advance(p), Unwrap(peek(p)))
    ELSE IF check(p, "LeftBracket")
    THEN Then(IF ~check(advance(p), "RightBracket") THEN ExpressionList(advance(p), <<>>)
              ELSE Ok(advance(p), <<>>), LAMBDA r1 :
         Then(consume(r1.p, "RightBracket", "Se esperaba ']' al final del array."), LAMBDA r2 :
             Ok(r2.p, Variant("Array", r1.node))))
    ELSE IF check(p, "LeftBrace")
    THEN Then(FieldLoop(advance(p), <<>>, TRUE), LAMBDA r1 :
         Then(consume(r1.p, "RightBrace", "Se esperaba '}' al final del objeto literal."),
              LAMBDA r2 :
             Ok(r2.p, Variant("Object", r1.node))))
    ELSE IF check(p, "Identifier")
    THEN IF p.current + 1 < Len(p.tokens) /\ p.tokens[p.current + 2].token_type = "LeftBrace"
         THEN struct_instantiation(p)
         ELSE Ok(advance(p), Variant("Identifier", Identifier(Unwrap(peek(p)))))
    ELSE IF check(p, "LeftParen")
    THEN Then(expression(advance(p)), LAMBDA r1 :
         Then(consume(r1.p, "RightParen", "Se esperaba ')' despues de la expresion."), LAMBDA r2 :
             Ok(r2.p, Variant("Grouped", r1.node))))
    ELSE IF peek(p) = None THEN Panic(p)
    ELSE Only({Err(PushError(p, err), err) :
               err \in {UnexpectedToken(<<"Token inesperado", Unwrap(peek(p)).lexeme>>,
                                        Unwrap(peek(p)).line, Unwrap(peek(p)).column)}})

(***************************************************************************)
(* semantic_analyzer.rs                                                    *)
(*                                                                         *)
(* The analyzer is the record [symbol_table, errors, current_function]; a  *)
(* method is an operator from the analyzer to [a, node]: the analyzer      *)
(* after the call and the AnnotatedNode returned, of which the model keeps *)
(* node_type, inferred_type and children.  A method that takes             *)
(* has_return: &mut bool takes its value and returns, in has_return, the   *)
(* value it leaves there.  A Type is its name, which is what to_string     *)
(* gives and from_str reads.                                               *)
(***************************************************************************)
\* SemanticError::kind(args.., line, column)
SemanticError(kind, args, line, column) ==
    [kind |-> kind, args |-> args, line |-> line, column |-> column]

MissingMainFunction == [kind |-> "MissingMainFunction"]

AnnotatedNode(node_type, inferred_type, children) ==
    [node_type |-> node_type, inferred_type |-> inferred_type, children |-> children]

SemanticAnalyzerNew ==
    [symbol_table |-> SymbolTableNew, errors |-> <<>>, current_function |-> None]

\* let v = x; f(v)
With(x, f(_)) == Only({f(v) : v \in {x}})

Analyzed(a, node) == [a |-> a, node |-> node]
Checked(a, node, has_return) == [a |-> a, node |-> node, has_return |-> has_return]

\* self.errors.push(err)
SemPush(a, err) == [a EXCEPT !.errors = Append(@, err)]

TypeFromStr(s) ==
    IF s \in {"Int", "Float", "String", "Bool", "Void"} THEN Some(s) ELSE None

\* Type::from_str(&node.inferred_type).unwrap_or(Type::Void)
InferredType(node) ==
    IF IsSome(TypeFromStr(node.inferred_type)) THEN Unwrap(TypeFromStr(node.inferred_type))
    ELSE "Void"

get_type(opt_type) == IF IsSome(opt_type) THEN Unwrap(opt_type) ELSE "Void"

RECURSIVE get_line_col(_)
get_line_col(e) ==
    CASE e.kind = "Identifier" -> <<e.value.line, e.value.column>>
      [] e.kind = "Literal" -> <<0, 0>>
      [] e.kind = "Binary" -> get_line_col(e.left)
      [] e.kind = "Unary" -> get_line_col(e.expr)
      [] e.kind = "Assignment" -> <<e.target.line, e.target.column>>
      [] e.kind = "Grouped" -> get_line_col(e.value)
      [] e.kind = "FunctionCall" -> get_line_col(e.function)
      [] e.kind = "Array" ->
            IF Len(e.value) = 0 THEN <<0, 0>> ELSE get_line_col(e.value[1])
      [] e.kind = "Object" ->
            IF Len(e.value) = 0 THEN <<0, 0>>
            ELSE <<e.value[1][1].line, e.value[1][1].column>>
      [] e.kind = "Splat" -> get_line_col(e.value)
      [] e.kind = "StructInstantiation" -> <<e.name.line, e.name.column>>
      [] e.kind = "MemberAccess" -> get_line_col(e.object)

identifier_to_annotated(id) == AnnotatedNode("Identifier", "", <<>>)

\* if !self.symbol_table.insert(name, symbol) { self.errors.push(err) }
\* An insert into the symbol table whose refusal is not reported.
MutInsertWithoutReport(a, name, symbol, err) ==
    With(SymbolTableInsert(a.symbol_table, name, symbol), LAMBDA r :
        [a EXCEPT !.symbol_table = r.st])

InsertOrReport(a, name, symbol, err) ==
    With(SymbolTableInsert(a.symbol_table, name, symbol), LAMBDA r :
        IF r.ret THEN [a EXCEPT !.symbol_table = r.st]
        ELSE SemPush([a EXCEPT !.symbol_table = r.st], err))

RECURSIVE analyze_expression(_, _)
RECURSIVE AnalyzeArguments(_, _, _)
RECURSIVE AnalyzeDeclarations(_, _, _)
RECURSIVE analyze_block(_, _)
RECURSIVE analyze_statement(_, _)
RECURSIVE analyze_declaration(_, _)
RECURSIVE analyze_function_declaration(_, _)
RECURSIVE analyze_block_with_return_check(_, _, _)
RECURSIVE CheckDeclarations(_, _, _, _)
RECURSIVE analyze_statement_with_return_check(_, _, _)

\* The loop over the arguments of a call.
AnalyzeArguments(a, arguments, arg_nodes) ==
    IF Len(arguments) = 0 THEN Analyzed(a, arg_nodes)
    ELSE With(analyze_expression(a, Head(arguments)), LAMBDA r :
             AnalyzeArguments(r.a, Tail(arguments), Append(arg_nodes, r.node)))

analyze_expression(a, e) ==
    IF e.kind = "Identifier"
    THEN With(SymbolTableLookup(a.symbol_table, e.value.name), LAMBDA sym :
             Analyzed(IF sym = None
                      THEN SemPush(a, SemanticError("UndeclaredVariable", <<e.value.name>>,
                                                    e.value.line, e.value.column))
                      ELSE a,
                      AnnotatedNode("Identifier",
                                    IF sym = None THEN "Void" ELSE SymbolGetType(Unwrap(sym)),
                                    <<>>)))
    ELSE IF e.kind = "Literal"
    THEN Analyzed(a, AnnotatedNode(CASE e.value.kind = "Int" -> "IntLiteral"
                                     [] e.value.kind = "Float" -> "FloatLiteral"
                                     [] e.value.kind = "String" -> "StringLiteral"
                                     [] e.value.kind = "Bool" -> "BoolLiteral",
                                   e.value.kind, <<>>))
    ELSE IF e.kind = "Binary"
    THEN With(analyze_expression(a, e.left), LAMBDA l :
         With(analyze_expression(l.a, e.right), LAMBDA r :
             Analyzed(IF InferredType(l.node) # InferredType(r.node)
                      THEN SemPush(r.a, SemanticError("TypeMismatch",
                                        <<InferredType(l.node), InferredType(r.node)>>, 0, 0))
                      ELSE r.a,
                      AnnotatedNode("BinaryExpression", InferredType(l.node),
                                    <<l.node, r.node>>))))
    ELSE IF e.kind = "Assignment"
    THEN With(SymbolTableLookup(a.symbol_table, e.target.name), LAMBDA symbol_info :
         With(analyze_expression(a, e.value), LAMBDA v :
             Analyzed(IF symbol_info # None
                      THEN IF SymbolIsConstant(Unwrap(symbol_info))
                           THEN SemPush(v.a, SemanticError("InvalidAssignment",
                                             <<"Cannot assign to constant", e.target.name>>,
                                             e.target.line, e.target.column))
                           ELSE IF SymbolGetType(Unwrap(symbol_info)) # InferredType(v.node)
                           THEN SemPush(v.a, SemanticError("TypeMismatch",
                                             <<SymbolGetType(Unwrap(symbol_info)),
                                               InferredType(v.node)>>,
                                             e.target.line, e.target.column))
                           ELSE v.a
                      ELSE SemPush(v.a, SemanticError("UndeclaredVariable", <<e.target.name>>,
                                                      e.target.line, e.target.column)),
                      AnnotatedNode("Assignment", "Void",
                                    <<identifier_to_annotated(e.target), v.node>>))))
    ELSE IF e.kind = "FunctionCall"
    THEN IF e.function.kind # "Identifier"
         THEN Analyzed(SemPush(a, SemanticError("InvalidFunctionCallTarget", <<>>,
                                                get_line_col(e.function)[1],
                                                get_line_col(e.function)[2])),
                       AnnotatedNode("Error", "", <<>>))
         ELSE With(AnalyzeArguments(a, e.arguments, <<>>), LAMBDA args :
              With(SymbolTableLookup(args.a.symbol_table, e.function.value.name), LAMBDA sym :
                  Analyzed(args.a,
                           AnnotatedNode("FunctionCall",
                                         IF sym = None THEN "Void"
                                         ELSE SymbolGetType(Unwrap(sym)),
                                         args.node))))
    ELSE IF e.kind = "Unary"
    THEN With(analyze_expression(a, e.expr), LAMBDA r :
             Analyzed(r.a, AnnotatedNode("UnaryExpression", InferredType(r.node), <<r.node>>)))
    ELSE IF e.kind = "Grouped"
    THEN With(analyze_expression(a, e.value), LAMBDA r :
             Analyzed(r.a, AnnotatedNode("GroupedExpression", r.node.inferred_type,
                                         <<r.node>>)))
    ELSE Analyzed(a, AnnotatedNode("UnsupportedExpression", "Void", <<>>))

analyze_return_statement(a, return_stmt) ==
    With(analyze_expression(a, return_stmt.value), LAMBDA v :
        Analyzed(IF v.a.current_function # None
                 THEN IF InferredType(v.node) # Unwrap(v.a.current_function)[2]
                      THEN SemPush(v.a, SemanticError("ReturnTypeMismatch",
                                        <<Unwrap(v.a.current_function)[2], InferredType(v.node)>>,
                                        get_line_col(return_stmt.value)[1],
                                        get_line_col(return_stmt.value)[2]))
                      ELSE v.a
                 ELSE SemPush(v.a, SemanticError("ReturnOutsideFunction", <<>>,
                                                 get_line_col(return_stmt.value)[1],
                                                 get_line_col(return_stmt.value)[2])),
                 AnnotatedNode("ReturnStatement", "", <<v.node>>)))

\* block.statements.iter().map(|d| self.analyze_declaration(d)).collect()
AnalyzeDeclarations(a, decls, children) ==
    IF Len(decls) = 0 THEN Analyzed(a, children)
    ELSE With(analyze_declaration(a, Head(decls)), LAMBDA r :
             AnalyzeDeclarations(r.a, Tail(decls), Append(children, r.node)))

analyze_block(a, block) ==
    With(AnalyzeDeclarations([a EXCEPT !.symbol_table = EnterScope(@, <<"block">>)],
                             block.statements, <<>>), LAMBDA r :
        Analyzed([r.a EXCEPT !.symbol_table = LeaveScope(@)],
                 AnnotatedNode("Block", "", r.node)))

analyze_statement(a, statement_) ==
    IF statement_.kind = "Expression" THEN analyze_expression(a, statement_.value)
    ELSE IF statement_.kind = "Block" THEN analyze_block(a, statement_.value)
    ELSE IF statement_.kind = "If"
    THEN With(analyze_expression(a, statement_.value.condition), LAMBDA cond :
         With(analyze_block(cond.a, statement_.value.then_block), LAMBDA then_r :
         With(IF statement_.value.else_block = None THEN Analyzed(then_r.a, None)
              ELSE IF Unwrap(statement_.value.else_block).kind = "Block"
              THEN With(analyze_statement(then_r.a, Unwrap(statement_.value.else_block).value),
                        LAMBDA r : Analyzed(r.a, Some(r.node)))
              ELSE With(analyze_statement(then_r.a,
                            Variant("If", Unwrap(statement_.value.else_block).value)),
                        LAMBDA r : Analyzed(r.a, Some(r.node))), LAMBDA else_r :
             Analyzed(else_r.a,
                      AnnotatedNode("IfStatement", "",
                                    <<cond.node, then_r.node>> \o else_r.node)))))
    ELSE IF statement_.kind = "While"
    THEN With(analyze_expression(a, statement_.value.condition), LAMBDA cond :
         With(analyze_block(cond.a, statement_.value.body), LAMBDA body :
             Analyzed(body.a, AnnotatedNode("WhileStatement", "", <<cond.node, body.node>>))))
    ELSE IF statement_.kind = "Return" THEN analyze_return_statement(a, statement_.value)
    ELSE IF statement_.kind = "For"
    THEN With(SymbolTableInsert(EnterScope(a.symbol_table, <<"for_loop">>),
                                statement_.value.variable.name,
                                SymVariable(statement_.value.variable.name, "Int",
                                            statement_.value.variable.line,
                                            statement_.value.variable.column, None)),
              LAMBDA ins :
         With(analyze_expression([a EXCEPT !.symbol_table = ins.st], statement_.value.iterable),
              LAMBDA iterable :
         With(analyze_block(iterable.a, statement_.value.body), LAMBDA body :
             Analyzed([body.a EXCEPT !.symbol_table = LeaveScope(@)],
                      AnnotatedNode("ForStatement", "",
                                    <<identifier_to_annotated(statement_.value.variable),
                                      iterable.node, body.node>>)))))
    ELSE Analyzed(a, AnnotatedNode("", "", <<>>))

analyze_variable_declaration(a, var_decl) ==
    With(analyze_expression(a, var_decl.value), LAMBDA v :
    With(InsertOrReport(
             IF get_type(var_decl.var_type) # "Void"
                /\ get_type(var_decl.var_type) # InferredType(v.node)
             THEN SemPush(v.a, SemanticError("TypeMismatch",
                               <<get_type(var_decl.var_type), InferredType(v.node)>>,
                               var_decl.identifier.line, var_decl.identifier.column))
             ELSE v.a,
             var_decl.identifier.name,
             SymVariable(var_decl.identifier.name, InferredType(v.node),
                         var_decl.identifier.line, var_decl.identifier.column,
                         IF var_decl.value.kind = "Literal" THEN Some(var_decl.value.value)
                         ELSE None),
             SemanticError("RedeclaredVariable", <<var_decl.identifier.name>>,
                           var_decl.identifier.line, var_decl.identifier.column)), LAMBDA a1 :
        Analyzed(a1, AnnotatedNode("VariableDeclaration", InferredType(v.node),
                                   <<identifier_to_annotated(var_decl.identifier), v.node>>))))

analyze_constant_declaration(a, const_decl) ==
    With(analyze_expression(a, const_decl.value), LAMBDA v :
    With(InsertOrReport(
             IF get_type(const_decl.const_type) # "Void"
                /\ get_type(const_decl.const_type) # InferredType(v.node)
             THEN SemPush(v.a, SemanticError("TypeMismatch",
                               <<get_type(const_decl.const_type), InferredType(v.node)>>,
                               const_decl.identifier.line, const_decl.identifier.column))
             ELSE v.a,
             const_decl.identifier.name,
             SymConstant(const_decl.identifier.name, InferredType(v.node),
                         const_decl.identifier.line, const_decl.identifier.column,
                         IF const_decl.value.kind = "Literal" THEN Some(const_decl.value.value)
                         ELSE None),
             SemanticError("RedeclaredVariable", <<const_decl.identifier.name>>,
                           const_decl.identifier.line, const_decl.identifier.column)),
         LAMBDA a1 :
        Analyzed(a1, AnnotatedNode("ConstantDeclaration", InferredType(v.node),
                                   <<identifier_to_annotated(const_decl.identifier), v.node>>))))

\* The loop of analyze_struct_declaration over the fields: the errors, the
\* HashMap of the fields and the field nodes.
RECURSIVE StructFields(_, _, _, _, _)
StructFields(a, name, field_list, fields, field_nodes) ==
    IF Len(field_list) = 0 THEN [a |-> a, node |-> field_nodes, fields |-> fields]
    ELSE StructFields(
             IF Head(field_list).name.name \in DOMAIN fields
             THEN SemPush(a, SemanticError("RedeclaredField",
                                           <<name, Head(field_list).name.name>>,
                                           Head(field_list).name.line,
                                           Head(field_list).name.column))
             ELSE a,
             name, Tail(field_list),
             HashMapInsert(fields, Head(field_list).name.name,
                           Head(field_list).field_type).map,
             Append(field_nodes,
                    AnnotatedNode("FieldDeclaration", Head(field_list).field_type, <<>>)))

analyze_struct_declaration(a, struct_decl) ==
    With(StructFields(a, struct_decl.name.name, struct_decl.fields, <<>>, <<>>), LAMBDA r :
        Analyzed(InsertOrReport(r.a, struct_decl.name.name,
                                SymStruct(struct_decl.name.name, r.fields,
                                          struct_decl.name.line, struct_decl.name.column),
                                SemanticError("RedeclaredStruct", <<struct_decl.name.name>>,
                                              struct_decl.name.line, struct_decl.name.column)),
                 AnnotatedNode("StructDeclaration", "", r.node)))

analyze_declaration(a, declaration_) ==
    CASE declaration_.kind = "Variable" -> analyze_variable_declaration(a, declaration_.value)
      [] declaration_.kind = "Function" -> analyze_function_declaration(a, declaration_.value)
      [] declaration_.kind = "Struct" -> analyze_struct_declaration(a, declaration_.value)
      [] declaration_.kind = "Constant" -> analyze_constant_declaration(a, declaration_.value)
      [] declaration_.kind = "Statement" -> analyze_statement(a, declaration_.value)

\* The closure analyze_function_declaration maps over the parameters.
RECURSIVE InsertParameters(_, _, _)
InsertParameters(a, params, params_nodes) ==
    IF Len(params) = 0 THEN Analyzed(a, params_nodes)
    ELSE InsertParameters(
             InsertOrReport(a, Head(params).name.name,
                            SymVariable(Head(params).name.name, Head(params).param_type,
                                        Head(params).name.line, Head(params).name.column, None),
                            SemanticError("RedeclaredVariable", <<Head(params).name.name>>,
                                          Head(params).name.line, Head(params).name.column)),
             Tail(params),
             Append(params_nodes, AnnotatedNode("Parameter", Head(params).param_type, <<>>)))

analyze_function_declaration(a, func_decl) ==
    With(InsertOrReport(a, func_decl.name.name,
                        SymFunction(func_decl.name.name,
                                    [i \in 1..Len(func_decl.parameters) |->
                                        func_decl.parameters[i].param_type],
                                    func_decl.return_type,
                                    func_decl.name.line, func_decl.name.column),
                        SemanticError("RedeclaredVariable", <<func_decl.name.name>>,
                                      func_decl.name.line, func_decl.name.column)), LAMBDA a1 :
    With(InsertParameters(
             [a1 EXCEPT !.current_function = Some(<<func_decl.name.name, func_decl.return_type>>),
                        !.symbol_table = EnterScope(@, <<"function: ">> \o func_decl.name.name)],
             func_decl.parameters, <<>>), LAMBDA params :
    With(analyze_block_with_return_check(params.a, func_decl.body, FALSE), LAMBDA body :
    With(IF func_decl.return_type # "Void" /\ ~body.has_return
         THEN SemPush(body.a, SemanticError("MissingReturnStatement", <<func_decl.name.name>>,
                                            func_decl.name.line, func_decl.name.column))
         ELSE body.a, LAMBDA a2 :
        Analyzed([a2 EXCEPT !.symbol_table = LeaveScope(@),
                            !.current_function = a1.current_function],
                 AnnotatedNode("FunctionDeclaration", func_decl.return_type,
                               <<AnnotatedNode("Parameters", "", params.node), body.node>>))))))

\* The loop of analyze_block_with_return_check over the block's statements.
CheckDeclarations(a, decls, children, has_return) ==
    IF Len(decls) = 0 THEN Checked(a, children, has_return)
    ELSE With(IF Head(decls).kind = "Statement"
              THEN analyze_statement_with_return_check(a, Head(decls).value, has_return)
              ELSE With(analyze_declaration(a, Head(decls)), LAMBDA d :
                       Checked(d.a, d.node, has_return)), LAMBDA r :
             CheckDeclarations(r.a, Tail(decls), Append(children, r.node), r.has_return))

analyze_block_with_return_check(a, block, has_return) ==
    With(CheckDeclarations([a EXCEPT !.symbol_table = EnterScope(@, <<"block">>)],
                           block.statements, <<>>, has_return), LAMBDA r :
        Checked([r.a EXCEPT !.symbol_table = LeaveScope(@)],
                AnnotatedNode("Block", "", r.node), r.has_return))

analyze_statement_with_return_check(a, stmt, has_return) ==
    IF stmt.kind = "Return"
    THEN With(analyze_return_statement(a, stmt.value), LAMBDA r : Checked(r.a, r.node, TRUE))
    ELSE IF stmt.kind = "Block"
    THEN analyze_block_with_return_check(a, stmt.value, has_return)
    ELSE IF stmt.kind = "If"
    THEN With(analyze_statement_with_return_check(a, Variant("Block", stmt.value.then_block),
                                                  has_return), LAMBDA then_r :
         With(IF stmt.value.else_block = None
              THEN Checked(then_r.a, None, then_r.has_return)
              ELSE With(analyze_statement_with_return_check(
                            then_r.a,
                            IF Unwrap(stmt.value.else_block).kind = "Block"
                            THEN Unwrap(stmt.value.else_block).value
                            ELSE Variant("If", Unwrap(stmt.value.else_block).value),
                            then_r.has_return),
                        LAMBDA r : Checked(r.a, Some(r.node), r.has_return)), LAMBDA else_r :
         With(analyze_expression(else_r.a, stmt.value.condition), LAMBDA cond :
             Checked(cond.a,
                     AnnotatedNode("IfStatement", "", <<cond.node, then_r.node>> \o else_r.node),
                     else_r.has_return))))
    ELSE With(analyze_statement(a, stmt), LAMBDA r : Checked(r.a, r.node, has_return))

\* A check of main that looks at the parameters only.
MutCheckMainParametersOnly(a) ==
    With(SymbolTableLookup(a.symbol_table, <<"m", "a", "i", "n">>), LAMBDA found :
        IF found # None /\ Unwrap(found).kind = "Function"
        THEN IF Len(Unwrap(found).parameters) # 0
             THEN SemPush(a, SemanticError("InvalidMainFunctionSignature",
                                           <<<<"expected 0 parameters but found",
                                               Len(Unwrap(found).parameters)>>>>,
                                           Unwrap(found).line, Unwrap(found).column))
             ELSE a
        ELSE SemPush(a, MissingMainFunction))

check_for_main_function(a) ==
    With(SymbolTableLookup(a.symbol_table, <<"m", "a", "i", "n">>), LAMBDA found :
        IF found # None /\ Unwrap(found).kind = "Function"
        THEN With((IF Len(Unwrap(found).parameters) # 0
                   THEN <<<<"expected 0 parameters but found", Len(Unwrap(found).parameters)>>>>
                   ELSE <<>>)
                  \o (IF Unwrap(found).return_type # "Int"
                      THEN <<<<"expected a 'Int' return type but found",
                               Unwrap(found).return_type>>>>
                      ELSE <<>>), LAMBDA signature_errors :
                 IF Len(signature_errors) # 0
                 THEN SemPush(a, SemanticError("InvalidMainFunctionSignature", signature_errors,
                                               Unwrap(found).line, Unwrap(found).column))
                 ELSE a)
        ELSE SemPush(a, MissingMainFunction))

(***************************************************************************)
(* llvm_compiler.rs                                                        *)
(***************************************************************************)
\* A BasicValueEnum, by its LLVM type (i64, i1, i32, f64, ptr); const says
\* that the value is a constant, for which the builder adds no instruction.
Value(type, const) == [type |-> type, const |-> const]

IsIntValue(v) == v.type \in {"i64", "i1", "i32"}
IsFloatValue(v) == v.type = "f64"

EmitOk(c, value) == [ok |-> TRUE, c |-> c, value |-> value]
EmitErr(c, err) == [ok |-> FALSE, c |-> c, value |-> err]

\* Compiler::new: the module holds the declarations of printf and puts. The
\* blocks are those of the function being compiled; insert_block is the block
\* the builder is positioned at the end of.
CompilerNew ==
    [functions |-> <<[name |-> <<"p", "r", "i", "n", "t", "f">>, return_type |-> Some("i32")],
                     [name |-> <<"p", "u", "t", "s">>, return_type |-> Some("i32")]>>,
     globals |-> <<>>,
     blocks |-> <<>>,
     insert_block |-> 0,
     variables |-> <<>>,
     variable_types |-> <<>>,
     current_function |-> None,
     allocas |-> 0]

ast_type_to_llvm(ast_type) ==
    CASE ast_type = "Int" -> Some("i64")
      [] ast_type = "Float" -> Some("f64")
      [] ast_type = "Bool" -> Some("i1")
      [] ast_type = "String" -> Some("ptr")
      [] ast_type = "Void" -> None

\* Context::append_basic_block, Builder::position_at_end, the build_ methods
\* of the builder, BasicBlock::get_terminator (the last instruction of the
\* block when it is a terminator) and BasicBlock::delete.
AppendBasicBlock(c, name) ==
    [c EXCEPT !.blocks = Append(@, [name |-> name, instrs |-> <<>>, deleted |-> FALSE])]

PositionAtEnd(c, bb) == [c EXCEPT !.insert_block = bb]

Build(c, instr) == [c EXCEPT !.blocks[c.insert_block].instrs = Append(@, instr)]

Terminators == {"ret", "br", "condbr"}

HasTerminator(block) ==
    block.instrs # <<>> /\ block.instrs[Len(block.instrs)].op \in Terminators

InsertBlockHasTerminator(c) == HasTerminator(c.blocks[c.insert_block])

DeleteBlock(c, bb) == [c EXCEPT !.blocks[bb].deleted = TRUE]

\* The alloca is built before the first instruction of the entry block; ptr
\* is the storage it names.
create_entry_block_alloca(c, name, type) ==
    [c |-> [c EXCEPT !.allocas = @ + 1,
                     !.blocks[1].instrs =
                         <<[op |-> "alloca", ptr |-> c.allocas + 1, name |-> name]>> \o @],
     ptr |-> c.allocas + 1]

\* The alloca, the store and the two inserts of a local variable, a local
\* constant and a parameter.
DeclareLocal(c, name, value) ==
    With(create_entry_block_alloca(c, name, value.type), LAMBDA r :
        [Build(r.c, [op |-> "store", ptr |-> r.ptr])
            EXCEPT !.variables = HashMapInsert(@, name, r.ptr).map,
                   !.variable_types = HashMapInsert(@, name, value.type).map])

compile_literal(c, literal) ==
    CASE literal.kind = "Int" -> EmitOk(c, Value("i64", TRUE))
      [] literal.kind = "Float" -> EmitOk(c, Value("f64", TRUE))
      [] literal.kind = "Bool" -> EmitOk(c, Value("i1", TRUE))
      [] literal.kind = "String" -> EmitOk(c, Value("ptr", TRUE))

\* An instruction that computes a value from operands: none is built when
\* the operands are all constants.
BuildValue(c, op, type, const) ==
    EmitOk(IF const THEN c ELSE Build(c, [op |-> op]), Value(type, const))

Arithmetic == {"Plus", "Minus", "Asterisk", "Slash"}
Comparisons == {"Greater", "Less", "GreaterEqual", "LessEqual", "DoubleEqual", "NotEqual"}

RECURSIVE compile_expression(_, _)
RECURSIVE CompileArguments(_, _)
RECURSIVE compile_block(_, _)
RECURSIVE CompileBlockLoop(_, _)
RECURSIVE compile_statement(_, _)
RECURSIVE compile_if(_, _)

compile_binary(c, left, op, right) ==
    Then(compile_expression(c, left), LAMBDA lhs :
    Then(compile_expression(lhs.c, right), LAMBDA rhs :
        IF IsIntValue(lhs.value) /\ IsIntValue(rhs.value)
        THEN IF op \in Arithmetic \cup {"DoubleAmpersand", "DoubleBar"}
             THEN BuildValue(rhs.c, op, lhs.value.type, lhs.value.const /\ rhs.value.const)
             ELSE IF op \in Comparisons
             THEN BuildValue(rhs.c, op, "i1", lhs.value.const /\ rhs.value.const)
             ELSE EmitErr(rhs.c, <<"Unsupported binary operation: ", op>>)
        ELSE IF IsFloatValue(lhs.value) /\ IsFloatValue(rhs.value)
        THEN IF op \in Arithmetic
             THEN BuildValue(rhs.c, op, "f64", lhs.value.const /\ rhs.value.const)
             ELSE IF op \in Comparisons
             THEN BuildValue(rhs.c, op, "i1", lhs.value.const /\ rhs.value.const)
             ELSE EmitErr(rhs.c, <<"Unsupported binary operation: ", op>>)
        ELSE EmitErr(rhs.c, <<"Type mismatch in binary operation">>)))

compile_unary(c, op, expr) ==
    Then(compile_expression(c, expr), LAMBDA val :
        IF op = "Minus"
        THEN IF IsIntValue(val.value) \/ IsFloatValue(val.value)
             THEN BuildValue(val.c, "neg", val.value.type, val.value.const)
             ELSE EmitErr(val.c, <<"Cannot negate non-numeric value">>)
        ELSE IF IsIntValue(val.value)
             THEN BuildValue(val.c, "not", val.value.type, val.value.const)
             ELSE EmitErr(val.c, <<"Cannot negate non-boolean value">>))

\* The function of a name in the module, if any: Module::get_function.
GetFunction(c, name) ==
    IF \E i \in 1..Len(c.functions) : c.functions[i].name = name
    THEN Some(c.functions[CHOOSE i \in 1..Len(c.functions) : c.functions[i].name = name])
    ELSE None

\* The map of compile_expression over the arguments of a call.
CompileArguments(c, arguments) ==
    IF arguments = <<>> THEN EmitOk(c, None)
    ELSE Then(compile_expression(c, Head(arguments)), LAMBDA r :
             CompileArguments(r.c, Tail(arguments)))

compile_function_call(c, function, arguments) ==
    IF function.kind # "Identifier"
    THEN EmitErr(c, <<"Function call target must be an identifier">>)
    ELSE IF GetFunction(c, function.value.name) = None
    THEN EmitErr(c, <<"Undefined function: ", function.value.name>>)
    ELSE Then(CompileArguments(c, arguments), LAMBDA args :
             With(Build(args.c, [op |-> "call", name |-> function.value.name]), LAMBDA built :
                 IF Unwrap(GetFunction(c, function.value.name)).return_type = None
                 THEN EmitErr(built, <<"Function call returned void">>)
                 ELSE EmitOk(built,
                             Value(Unwrap(Unwrap(GetFunction(c, function.value.name)).return_type),
                                   FALSE))))

compile_expression(c, expr) ==
    CASE expr.kind = "Literal" -> compile_literal(c, expr.value)
      [] expr.kind = "Identifier" ->
            IF HashMapGet(c.variables, expr.value.name) = None
            THEN EmitErr(c, <<"Undefined variable: ", expr.value.name>>)
            ELSE IF HashMapGet(c.variable_types, expr.value.name) = None
            THEN EmitErr(c, <<"Variable type not found: ", expr.value.name>>)
            ELSE EmitOk(Build(c, [op |-> "load",
                                  ptr |-> Unwrap(HashMapGet(c.variables, expr.value.name)),
                                  name |-> expr.value.name]),
                        Value(Unwrap(HashMapGet(c.variable_types, expr.value.name)), FALSE))
      [] expr.kind = "Binary" ->
            compile_binary(c, expr.left, expr.op, expr.right)
      [] expr.kind = "Unary" -> compile_unary(c, expr.op, expr.expr)
      [] expr.kind = "Assignment" ->
            Then(compile_expression(c, expr.value), LAMBDA val :
                IF HashMapGet(val.c.variables, expr.target.name) = None
                THEN EmitErr(val.c, <<"Undefined variable: ", expr.target.name>>)
                ELSE EmitOk(Build(val.c,
                                  [op |-> "store",
                                   ptr |-> Unwrap(HashMapGet(val.c.variables,
                                                             expr.target.name)),
                                   name |-> expr.target.name]),
                            val.value))
      [] expr.kind = "FunctionCall" ->
            compile_function_call(c, expr.function, expr.arguments)
      [] expr.kind = "Grouped" -> compile_expression(c, expr.value)
      [] OTHER -> EmitErr(c, <<"Unsupported expression type: ", expr.kind>>)

compile_block_declaration(c, decl) ==
    CASE decl.kind \in {"Variable", "Constant"} ->
            Then(compile_expression(c, decl.value.value), LAMBDA r :
                EmitOk(DeclareLocal(r.c, decl.value.identifier.name, r.value), None))
      [] decl.kind = "Statement" -> compile_statement(c, decl.value)
      [] decl.kind = "Function" -> EmitErr(c, <<"Nested functions not supported">>)
      [] decl.kind = "Struct" -> EmitOk(c, None)

\* The loop of compile_block.
CompileBlockLoop(c, statements) ==
    IF statements = <<>> THEN EmitOk(c, None)
    ELSE Then(compile_block_declaration(c, Head(statements)), LAMBDA r :
             CompileBlockLoop(r.c, Tail(statements)))

compile_block(c, block) == CompileBlockLoop(c, block.statements)

\* let condition = match condition { IntValue(i) => i, _ => return Err(..) }
IntCondition(r) ==
    IF IsIntValue(r.value) THEN r ELSE EmitErr(r.c, <<"Condition must be boolean">>)

\* A branch to bb built unless the block of the builder has a terminator.
BranchUnlessTerminated(c, bb) ==
    IF InsertBlockHasTerminator(c) THEN c ELSE Build(c, [op |-> "br", target |-> bb])

compile_if(c, if_stmt) ==
    Then(IntCondition(compile_expression(c, if_stmt.condition)), LAMBDA condition :
        IF condition.c.current_function = None THEN EmitErr(condition.c, <<"No current function">>)
        ELSE
        With(Len(condition.c.blocks) + 1, LAMBDA then_bb :
        With(then_bb + 1, LAMBDA else_bb :
        With(else_bb + 1, LAMBDA merge_bb :
        Then(compile_block(
                 PositionAtEnd(
                     Build(AppendBasicBlock(AppendBasicBlock(AppendBasicBlock(condition.c,
                                                                              "then"),
                                                             "else"),
                                            "ifcont"),
                           [op |-> "condbr", type |-> condition.value.type,
                            then |-> then_bb, else |-> else_bb]),
                     then_bb),
                 if_stmt.then_block), LAMBDA then_r :
        With(InsertBlockHasTerminator(then_r.c), LAMBDA then_has_terminator :
        Then(With(PositionAtEnd(BranchUnlessTerminated(then_r.c, merge_bb), else_bb),
                  LAMBDA at_else :
                 IF if_stmt.else_block = None THEN EmitOk(at_else, None)
                 ELSE IF Unwrap(if_stmt.else_block).kind = "If"
                 THEN compile_if(at_else, Unwrap(if_stmt.else_block).value)
                 ELSE compile_statement(at_else, Unwrap(if_stmt.else_block).value)),
             LAMBDA else_r :
        With(InsertBlockHasTerminator(else_r.c), LAMBDA else_has_terminator :
            IF ~then_has_terminator \/ ~else_has_terminator
            THEN EmitOk(PositionAtEnd(BranchUnlessTerminated(else_r.c, merge_bb), merge_bb),
                        None)
            ELSE EmitOk(DeleteBlock(else_r.c, merge_bb), None)))))))))

compile_while(c, while_stmt) ==
    IF c.current_function = None THEN EmitErr(c, <<"No current function">>)
    ELSE
    With(Len(c.blocks) + 1, LAMBDA cond_bb :
    With(cond_bb + 1, LAMBDA body_bb :
    With(body_bb + 1, LAMBDA after_bb :
    Then(IntCondition(compile_expression(
             PositionAtEnd(
                 Build(AppendBasicBlock(AppendBasicBlock(AppendBasicBlock(c, "whilecond"),
                                                         "whilebody"),
                                        "afterwhile"),
                       [op |-> "br", target |-> cond_bb]),
                 cond_bb),
             while_stmt.condition)), LAMBDA condition :
    Then(compile_block(
             PositionAtEnd(Build(condition.c,
                                 [op |-> "condbr", type |-> condition.value.type,
                                  then |-> body_bb, else |-> after_bb]),
                           body_bb),
             while_stmt.body), LAMBDA body :
        EmitOk(PositionAtEnd(BranchUnlessTerminated(body.c, cond_bb), after_bb), None))))))

compile_do_until(c, do_until) ==
    IF c.current_function = None THEN EmitErr(c, <<"No current function">>)
    ELSE
    With(Len(c.blocks) + 1, LAMBDA body_bb :
    With(body_bb + 1, LAMBDA cond_bb :
    With(cond_bb + 1, LAMBDA after_bb :
    Then(compile_block(
             PositionAtEnd(
                 Build(AppendBasicBlock(AppendBasicBlock(AppendBasicBlock(c, "doBody"),
                                                         "doCond"),
                                        "afterDo"),
                       [op |-> "br", target |-> body_bb]),
                 body_bb),
             do_until.body), LAMBDA body :
    Then(IntCondition(compile_expression(
             PositionAtEnd(BranchUnlessTerminated(body.c, cond_bb), cond_bb),
             do_until.condition)), LAMBDA condition :
        EmitOk(PositionAtEnd(Build(condition.c,
                                   [op |-> "condbr", type |-> condition.value.type,
                                    then |-> after_bb, else |-> body_bb]),
                             after_bb),
               None))))))

compile_statement(c, stmt) ==
    CASE stmt.kind = "Expression" ->
            Then(compile_expression(c, stmt.value), LAMBDA r : EmitOk(r.c, None))
      [] stmt.kind = "Return" ->
            Then(compile_expression(c, stmt.value.value), LAMBDA r :
                EmitOk(Build(r.c, [op |-> "ret", type |-> Some(r.value.type)]), None))
      [] stmt.kind = "If" -> compile_if(c, stmt.value)
      [] stmt.kind = "While" -> compile_while(c, stmt.value)
      [] stmt.kind = "For" -> EmitErr(c, <<"For loops not yet implemented">>)
      [] stmt.kind = "DoUntil" -> compile_do_until(c, stmt.value)
      [] stmt.kind = "Block" -> compile_block(c, stmt.value)

\* FunctionValue::verify on the function being compiled, as far as the
\* instructions kept here go: every block that is not deleted ends in a
\* terminator and has no other, a return gives a value of the return type,
\* and a conditional branch tests an i1.
VerifyFunction(c, return_type) ==
    \A b \in 1..Len(c.blocks) :
        ~c.blocks[b].deleted =>
            /\ HasTerminator(c.blocks[b])
            /\ \A k \in 1..Len(c.blocks[b].instrs) :
                  /\ c.blocks[b].instrs[k].op \in Terminators => k = Len(c.blocks[b].instrs)
                  /\ c.blocks[b].instrs[k].op = "ret" =>
                        c.blocks[b].instrs[k].type = return_type
                  /\ c.blocks[b].instrs[k].op = "condbr" =>
                        c.blocks[b].instrs[k].type = "i1"

\* The parameters of compile_function: an alloca, a store and the inserts
\* for each.
RECURSIVE CompileParameters(_, _)
CompileParameters(c, params) ==
    IF params = <<>> THEN c
    ELSE CompileParameters(
             DeclareLocal(c, Head(params).name.name,
                          Value(Unwrap(ast_type_to_llvm(Head(params).param_type)), FALSE)),
             Tail(params))

compile_function(c, function) ==
    IF \E i \in 1..Len(function.parameters) :
          ast_type_to_llvm(function.parameters[i].param_type) = None
    THEN EmitErr(c, <<"Void parameter type">>)
    ELSE With([c EXCEPT !.functions =
                            Append(@, [name |-> function.name.name,
                                       return_type |-> ast_type_to_llvm(function.return_type)]),
                        !.current_function = Some(Len(c.functions) + 1),
                        !.blocks = <<[name |-> "entry", instrs |-> <<>>, deleted |-> FALSE]>>,
                        !.insert_block = 1,
                        !.variables = <<>>,
                        !.variable_types = <<>>], LAMBDA started :
         Then(compile_block(CompileParameters(started, function.parameters), function.body),
              LAMBDA body :
         With(IF function.return_type = "Void" /\ ~InsertBlockHasTerminator(body.c)
              THEN Build(body.c, [op |-> "ret", type |-> None])
              ELSE body.c, LAMBDA ended :
             IF VerifyFunction(ended, ast_type_to_llvm(function.return_type))
             THEN EmitOk(ended, None)
             ELSE EmitErr([ended EXCEPT !.functions = SubSeq(@, 1, Len(@) - 1)],
                          <<"Invalid function: ", function.name.name>>))))

\* compile_global_variable and compile_global_constant.
compile_global(c, decl, what) ==
    Then(compile_expression(c, decl.value), LAMBDA value :
        With([value.c EXCEPT !.globals = Append(@, decl.identifier.name)], LAMBDA added :
            IF IsIntValue(value.value) \/ IsFloatValue(value.value)
            THEN EmitOk(added, None)
            ELSE EmitErr(added, <<"Global ", what, " must be initialized with constants">>)))

compile_declaration(c, decl) ==
    CASE decl.kind = "Function" -> compile_function(c, decl.value)
      [] decl.kind = "Variable" -> compile_global(c, decl.value, "variables")
      [] decl.kind = "Constant" -> compile_global(c, decl.value, "constants")
      [] decl.kind = "Struct" -> EmitOk(c, None)
      [] decl.kind = "Statement" -> EmitErr(c, <<"Top-level statements not supported">>)

(***************************************************************************)
(* The symbol table driven by arbitrary calls                              *)
(***************************************************************************)
RECURSIVE ScopeCount(_)
RECURSIVE ScopeSeqCount(_)
ScopeSeqCount(scopes) ==
    IF scopes = <<>> THEN 0
    ELSE ScopeCount(Head(scopes)) + ScopeSeqCount(Tail(scopes))

\* The scopes of the tree that current_scope is part of: the scope, the
\* scopes it has left, and its enclosing scopes with theirs.
ScopeCount(scope) ==
    1 + ScopeSeqCount(scope.children)
      + (IF IsSome(scope.parent) THEN ScopeCount(Unwrap(scope.parent)) ELSE 0)

StSymbols(n) ==
    {SymVariable(n, "Int", 1, 1, None), SymConstant(n, "Float", 2, 1, None)}

StNoRet == [ok |-> TRUE, sym |-> None, before |-> None]

StLookups(st) == [n \in StNames |-> SymbolTableLookup(st, n)]

StIdle ==
    /\ symbol_table = SymbolTableNew
    /\ st_call = [op |-> "new", name |-> <<>>]
    /\ st_ret = StNoRet
    /\ st_saved = <<>>

LexIdle ==
    /\ lex_source = <<>>
    /\ lexer = [input |-> <<>>, line |-> 1, column |-> 1]
    /\ lex_tokens = <<>>
    /\ lex_starts = <<>>
    /\ lex_pc = "idle"

ParseIdle ==
    /\ parser = ParserNew(<<>>)
    /\ declarations = <<>>
    /\ parse_turn = [turns |-> 0, start |-> 0, advanced |-> TRUE]
    /\ parse_pc = "idle"

SemIdle ==
    /\ analyzer = SemanticAnalyzerNew
    /\ sem_program = [declarations |-> <<>>]
    /\ sem_children = <<>>
    /\ sem_pc = "idle"

EmitIdle ==
    /\ compiler = CompilerNew
    /\ emit_turn = 0
    /\ emit_error = None
    /\ emit_pc = "idle"

\* A run of the library, without the command line of dreamcc.
DriverIdle ==
    /\ cli = [lex_only |-> FALSE, parse_only |-> FALSE, semantic_only |-> FALSE]
    /\ ir_written = FALSE
    /\ exit_code = None

StInit == StIdle /\ LexIdle /\ ParseIdle /\ SemIdle /\ EmitIdle /\ DriverIdle

StEnterScope ==
    /\ ScopeCount(symbol_table.current_scope) < MaxScopes
    /\ symbol_table' = EnterScope(symbol_table, <<"block">>)
    /\ st_call' = [op |-> "enter_scope", name |-> <<"block">>]
    /\ st_ret' = StNoRet
    /\ st_saved' = Append(st_saved, StLookups(symbol_table))
    /\ UNCHANGED notSt

StLeaveScope ==
    /\ symbol_table' = LeaveScope(symbol_table)
    /\ st_call' = [op |-> "leave_scope", name |-> <<>>]
    /\ IF st_saved = <<>>
       THEN st_ret' = StNoRet /\ st_saved' = st_saved
       ELSE /\ st_ret' = [StNoRet EXCEPT !.before = Some(st_saved[Len(st_saved)])]
            /\ st_saved' = SubSeq(st_saved, 1, Len(st_saved) - 1)
    /\ UNCHANGED notSt

StInsert ==
    \E n \in StNames : \E s \in StSymbols(n) :
        LET r == SymbolTableInsert(symbol_table, n, s)
        IN  /\ symbol_table' = r.st
            /\ st_call' = [op |-> "insert", name |-> n]
            /\ st_ret' = [StNoRet EXCEPT !.ok = r.ret]
            /\ st_saved' = st_saved
            /\ UNCHANGED notSt

StLookup ==
    \E n \in StNames :
        /\ st_call' = [op |-> "lookup", name |-> n]
        /\ st_ret' = [StNoRet EXCEPT !.sym = SymbolTableLookup(symbol_table, n)]
        /\ UNCHANGED <<symbol_table, st_saved, notSt>>

StNext == StEnterScope \/ StLeaveScope \/ StInsert \/ StLookup

StSpec == StInit /\ [][StNext]_vars

\* The scope chain, innermost scope first.
RECURSIVE ScopeChain(_)
ScopeChain(scope) ==
    <<scope>> \o (IF IsSome(scope.parent) THEN ScopeChain(Unwrap(scope.parent))
                  ELSE <<>>)

\* The positions of the chain whose scope binds n.
BindingScopes(chain, n) == {i \in 1..Len(chain) : n \in DOMAIN chain[i].symbols}

SetMin(S) == CHOOSE i \in S : \A j \in S : i <= j

\* C3: insert(n, s) returns false exactly when n was bound in the current
\* (innermost) scope before the call; a binding of n in an enclosing scope
\* alone never makes it return false.
C3_InsertFailsIffBoundInCurrentScope ==
    [][st_call'.op = "insert" =>
          (st_ret'.ok = FALSE <=>
              st_call'.name \in DOMAIN symbol_table.current_scope.symbols)]_vars

\* An insert that succeeded in a nested scope although an enclosing scope
\* binds the same name.
C3_Witness ==
    /\ st_call.op = "insert"
    /\ st_ret.ok
    /\ IsSome(symbol_table.current_scope.parent)
    /\ IsSome(ScopeLookup(Unwrap(symbol_table.current_scope.parent), st_call.name))

\* C4: lookup(n) returns the binding of n in the innermost scope of the
\* current scope chain that binds n, None exactly when no scope of the chain
\* binds n, and so never a symbol bound only in a scope that was left.
C4_LookupInnermostBinding ==
    LET chain == ScopeChain(symbol_table.current_scope)
    IN  /\ \A n \in StNames :
              LET at == BindingScopes(chain, n)
              IN  SymbolTableLookup(symbol_table, n) =
                    (IF at = {} THEN None ELSE Some(chain[SetMin(at)].symbols[n]))
        /\ st_call.op = "lookup" =>
              LET at == BindingScopes(chain, st_call.name)
              IN  /\ st_ret.sym = None <=> at = {}
                  /\ at # {} => st_ret.sym = Some(chain[SetMin(at)].symbols[st_call.name])

\* A lookup answered from the current scope while the enclosing scope binds
\* the name to another symbol, and a scope that was left binds a name the
\* chain does not bind.
C4_Witness ==
    LET cur == symbol_table.current_scope
        n == st_call.name
    IN  /\ st_call.op = "lookup"
        /\ IsSome(cur.parent)
        /\ n \in DOMAIN cur.symbols
        /\ n \in DOMAIN Unwrap(cur.parent).symbols
        /\ Unwrap(cur.parent).symbols[n] # cur.symbols[n]
        /\ st_ret.sym = Some(cur.symbols[n])
        /\ \E m \in StNames : \E i \in 1..Len(Unwrap(cur.parent).children) :
              /\ m \in DOMAIN Unwrap(cur.parent).children[i].symbols
              /\ SymbolTableLookup(symbol_table, m) = None

\* C5: after enter_scope, inserts in the new scope (and balanced nested
\* enter/leave pairs) and the matching leave_scope, lookup(y) returns for
\* every name y what it returned before the enter_scope.
C5_LeaveScopeRestoresLookups ==
    (st_call.op = "leave_scope" /\ IsSome(st_ret.before)) =>
        \A y \in StNames :
            SymbolTableLookup(symbol_table, y) = Unwrap(st_ret.before)[y]

\* A scope was left that rebound a name its parent binds, with a further
\* scope entered and left inside it.
C5_Witness ==
    LET cur == symbol_table.current_scope
    IN  /\ st_call.op = "leave_scope"
        /\ IsSome(st_ret.before)
        /\ cur.children # <<>>
        /\ LET left == cur.children[Len(cur.children)]
           IN  /\ left.children # <<>>
               /\ \E y \in StNames :
                     /\ y \in DOMAIN left.symbols
                     /\ y \in DOMAIN cur.symbols
                     /\ left.symbols[y] # cur.symbols[y]

(***************************************************************************)
(* scan_tokens run on a source text                                        *)
(***************************************************************************)
RECURSIVE Flatten(_)
Flatten(seqs) == IF seqs = <<>> THEN <<>> ELSE Head(seqs) \o Flatten(Tail(seqs))

LexSources ==
    {Flatten(f) : f \in UNION {[1..n -> LexPieces] : n \in 0..MaxPieces}}

\* The offset in the source of the next character of the input.
LexOffset == Len(lex_source) - Len(lexer.input) + 1

LexInit ==
    /\ StIdle
    /\ EmitIdle
    /\ DriverIdle
    /\ ParseIdle
    /\ SemIdle
    /\ lex_source \in LexSources
    /\ lexer = LexicalAnalyzerNew(lex_source)
    /\ lex_tokens = <<>>
    /\ lex_starts = <<>>
    /\ lex_pc = "scan"

\* One turn of the loop of scan_tokens: tokens.push(self.scan_token()).
LexScanToken ==
    /\ lex_pc = "scan"
    /\ ~LexIsAtEnd(lexer)
    /\ LET r == ScanToken(lexer)
       IN  IF r.panic
           THEN lex_pc' = "panic" /\ UNCHANGED <<lexer, lex_tokens, lex_starts>>
           ELSE /\ lexer' = r.lx
                /\ lex_tokens' = Append(lex_tokens, Unwrap(r.token))
                /\ lex_starts' = Append(lex_starts, LexOffset)
                /\ lex_pc' = lex_pc
    /\ UNCHANGED <<lex_source, notLex>>

\* The end of scan_tokens: the EndOfFile token is appended.
LexFinish ==
    /\ lex_pc = "scan"
    /\ LexIsAtEnd(lexer)
    /\ lex_tokens' = Append(lex_tokens, LexEofToken(lexer, lex_tokens))
    /\ lex_pc' = "done"
    /\ UNCHANGED <<lex_source, lexer, lex_starts, notLex>>

LexNext == LexScanToken \/ LexFinish

LexSpec == LexInit /\ [][LexNext]_vars

\* The characters scan_token has a branch for.
LexRecognized ==
    {" ", "\t", "\r", "\n", "/", "(", ")", "{", "}", "[", "]", ",", ";", ":", ".",
     "+", "-", "*", "=", ">", "<", "!", "&", "|", "@", "'", "\"", "_"}
        \cup Letters \cup Digits

\* The offset just after the source text of token i (a token of scan_token).
LexEnd(i) == IF i < Len(lex_starts) THEN lex_starts[i + 1] ELSE LexOffset

\* C8: scan_tokens never fails and ends: every scan_token call consumes at
\* least one character, an unrecognized character becomes an Invalid token of
\* that character and scanning goes on to the end of the input, and the result
\* holds exactly one EndOfFile token, its last element; the empty source gives
\* exactly <<EndOfFile at line 1, column 1>>.
C8_ScanTokensTotal ==
    /\ lex_pc \in {"scan", "done"}
    /\ \A i \in 1..Len(lex_starts) :
          /\ lex_starts[i] < LexEnd(i)
          /\ lex_tokens[i].token_type # "EndOfFile"
          /\ lex_source[lex_starts[i]] \notin LexRecognized =>
                /\ lex_tokens[i].token_type = "Invalid"
                /\ lex_tokens[i].lexeme = <<lex_source[lex_starts[i]]>>
                /\ LexEnd(i) = lex_starts[i] + 1
    /\ lex_pc = "scan" => Len(lex_tokens) = Len(lex_starts)
    /\ lex_pc = "done" =>
          /\ lexer.input = <<>>
          /\ Len(lex_tokens) = Len(lex_starts) + 1
          /\ lex_tokens[Len(lex_tokens)].token_type = "EndOfFile"
          /\ lex_source = <<>> =>
                lex_tokens = <<LexerToken("EndOfFile", <<>>, 1, 1)>>

\* scan_tokens has returned for a source in which an unrecognized character
\* is followed by further tokens.
C8_Witness ==
    /\ lex_pc = "done"
    /\ \E i \in 1..Len(lex_starts) :
          /\ lex_source[lex_starts[i]] \notin LexRecognized
          /\ i + 1 < Len(lex_tokens)

\* The source text a token stands for: its lexeme, and for a String token the
\* quoted text it was scanned from.
LexTokenText(i) ==
    IF lex_tokens[i].token_type = "String"
    THEN SubSeq(lex_source, lex_starts[i], LexEnd(i) - 1)
    ELSE lex_tokens[i].lexeme

\* C9: the lexemes of the tokens scan_tokens returns, concatenated in order
\* (a String token counting as its quoted source text), are the source.
C9_LexemesReproduceSource ==
    lex_pc = "done" =>
        Flatten([i \in 1..Len(lex_starts) |-> LexTokenText(i)]) = lex_source

\* The line of the character at offset k of the source (1-based, one more
\* per newline before it).
LineAt(src, k) == 1 + Cardinality({j \in 1..(k - 1) : src[j] = "\n"})

\* Its column (1-based, counted from the last newline before it).
ColumnAt(src, k) ==
    LET nls == {j \in 1..(k - 1) : src[j] = "\n"}
    IN  IF nls = {} THEN k ELSE k - (CHOOSE j \in nls : \A m \in nls : m <= j)

\* C10: tokens are emitted in source order, each carrying the 1-based line and
\* column of the first character of its source text (the column one more per
\* character, 1 again after every newline, also a newline inside a multi-line
\* comment), and the EndOfFile token carries the position just after the last
\* character consumed.
C10_TokenPositions ==
    /\ \A i \in 1..Len(lex_starts) :
          /\ i > 1 => lex_starts[i - 1] < lex_starts[i]
          /\ lex_tokens[i].line = LineAt(lex_source, lex_starts[i])
          /\ lex_tokens[i].column = ColumnAt(lex_source, lex_starts[i])
    /\ lex_pc = "done" =>
          /\ lex_tokens[Len(lex_tokens)].line = LineAt(lex_source, Len(lex_source) + 1)
          /\ lex_tokens[Len(lex_tokens)].column =
                ColumnAt(lex_source, Len(lex_source) + 1)

\* scan_tokens has returned a token that follows, on the same line, a
\* multi-line comment with a newline in it.
C10_Witness ==
    /\ lex_pc = "done"
    /\ \E i \in 1..Len(lex_starts) :
          /\ lex_tokens[i].token_type = "CommentMultiLine"
          /\ \E j \in 1..Len(lex_tokens[i].lexeme) : lex_tokens[i].lexeme[j] = "\n"
          /\ i + 1 < Len(lex_tokens)
          /\ lex_tokens[i + 1].line = 2
          /\ lex_tokens[i + 1].column > 1

(***************************************************************************)
(* parse_tokens run on the tokens of a source text                         *)
(***************************************************************************)
\* The filter the driver applies to the lexer's tokens before parsing.
FilterTokens(tokens) ==
    SelectSeq(tokens,
              LAMBDA t : t.token_type \notin {"Whitespace", "NewLine", "CommentSingle",
                                              "CommentMultiLine", "Unknown"})

RECURSIVE JoinWords(_)
JoinWords(words) ==
    IF words = <<>> THEN <<>>
    ELSE IF Len(words) = 1 THEN Head(words)
    ELSE Head(words) \o <<" ">> \o JoinWords(Tail(words))

ParseSources ==
    {JoinWords(f) : f \in UNION {[1..n -> ParseWords] : n \in 0..MaxTokens}}

ParseInit ==
    /\ StIdle
    /\ EmitIdle
    /\ DriverIdle
    /\ LexIdle
    /\ SemIdle
    /\ \E source \in ParseSources :
          parser = ParserNew(FilterTokens(ScanTokens(source)))
    /\ declarations = <<>>
    /\ parse_turn = [turns |-> 0, start |-> 0, advanced |-> TRUE]
    /\ parse_pc = "parse"

\* One turn of the loop of parse: a declaration is parsed and pushed, or its
\* error is dropped and the parser synchronizes.
ParseDeclaration ==
    /\ parse_pc = "parse"
    /\ ~is_at_end(parser)
    /\ \E r \in {declaration(parser)} :
          IF r.panic
          THEN parse_pc' = "panic" /\ UNCHANGED <<parser, declarations, parse_turn>>
          ELSE \E t \in {Turn(r, declarations)} :
                  /\ parser' = t.p
                  /\ declarations' = t.node
                  /\ parse_turn' = [turns |-> parse_turn.turns + 1, start |-> parser.current,
                                    advanced |-> TurnAdvances(parser, r, t.p)]
                  /\ parse_pc' = parse_pc
    /\ UNCHANGED notParse

\* The end of parse and of parse_tokens: ParseResult { ast, errors }.
ParseReturn ==
    /\ parse_pc = "parse"
    /\ is_at_end(parser)
    /\ parse_pc' = "done"
    /\ UNCHANGED <<parser, declarations, parse_turn, notParse>>

ParseNext == ParseDeclaration \/ ParseReturn

ParseSpec == ParseInit /\ [][ParseNext]_vars

\* C1: whenever a declaration loop of the parser drops the error of a
\* declaration or statement, the error list holds at least one SyntaxError;
\* said the other way round, while the error list is empty no result was
\* dropped and synchronize skipped no token.
C1_DiscardRecordsError ==
    parser.errors = <<>> => parser.discarded = 0 /\ parser.skipped = 0

\* C6: parse ends: every turn of its loop and of every block loop moves the
\* cursor forward (a parsed declaration consumes a token; after a failure
\* synchronize consumes one unless the parser is at EndOfFile), and the
\* cursor never passes the index of the EndOfFile token.
C6_ParseAdvancesWithinTokens ==
    /\ parser.current < Len(parser.tokens)
    /\ parser.tokens[Len(parser.tokens)].token_type = "EndOfFile"
    /\ ~parser.stalled
    /\ parse_turn.turns > 0 =>
          parse_turn.advanced /\ parser.current > parse_turn.start

\* parse has returned after one turn of its loop, which parsed a block in
\* whose loop a declaration failed and synchronize skipped tokens.
C6_Witness ==
    /\ parse_pc = "done"
    /\ parse_turn.turns = 1
    /\ Len(declarations) = 1
    /\ declarations[1].value.kind = "Block"
    /\ parser.discarded > 0
    /\ parser.skipped > 0

\* C7: parse_tokens returns a ParseResult for every token stream of the
\* lexer; it never panics.
C7_ParseTokensNeverPanics == parse_pc # "panic"

(***************************************************************************)
(* analyze run on a program                                                *)
(***************************************************************************)
\* The statements a function body is made of, as parse_tokens builds them
\* for a statement written on one line of the source text, the line given:
\* return 1;  if (true) {b}  if (true) {b} else {b}  if (true) {b} else if
\* (true) {b}  if (true) {b} else if (true) {b} else {b}  while (true) {b}
\* for i in 1 {b}  {b}  { if (true) {b} }  fn g() -> Int {b}, where b is
\* return 1; or nothing.
SemStatements(line) ==
    LET one == Variant("Literal", Variant("Int", <<"1">>))
        true == Variant("Literal", Variant("Bool", TRUE))
        ret == Variant("Statement", Variant("Return", [value |-> one]))
        Block(statements) == [statements |-> statements]
        If(then_block, else_block) ==
            [condition |-> true, then_block |-> then_block, else_block |-> else_block]
        Else(block) == Some(Variant("Block", Variant("Block", block)))
        Stmt(kind, value) == Variant("Statement", Variant(kind, value))
        blocks == {Block(<<>>), Block(<<ret>>)}
    IN  {ret}
        \cup {Stmt("If", If(b, None)) : b \in blocks}
        \cup {Stmt("If", If(b1, Else(b2))) : b1 \in blocks, b2 \in blocks}
        \cup {Stmt("If", If(Block(<<ret>>), Some(Variant("If", If(Block(<<ret>>), e))))) :
                 e \in {None, Else(Block(<<ret>>))}}
        \cup {Stmt("While", [condition |-> true, body |-> Block(<<ret>>)]),
              Stmt("For", [variable |-> [name |-> <<"i">>, line |-> line, column |-> 5],
                           iterable |-> one, body |-> Block(<<ret>>)]),
              Stmt("Block", Block(<<ret>>)),
              Stmt("Block", Block(<<Stmt("If", If(Block(<<ret>>), None))>>)),
              Variant("Function", [name |-> [name |-> <<"g">>, line |-> line, column |-> 4],
                                   parameters |-> <<>>, return_type |-> "Int",
                                   body |-> Block(<<ret>>)])}

\* The bodies of at most n statements, the first on line 2 of the source.
SemBodies(n) ==
    UNION {{f \in [1..k -> UNION {SemStatements(l) : l \in 2..(k + 1)}] :
               \A i \in 1..k : f[i] \in SemStatements(i + 1)} : k \in 0..n}

\* The programs given to the analyzer: a function f without parameters, of
\* return type Int or Void, with one of the bodies.
SemPrograms(n) ==
    {[declarations |->
         <<Variant("Function", [name |-> [name |-> <<"f">>, line |-> 1, column |-> 4],
                                parameters |-> <<>>, return_type |-> t,
                                body |-> [statements |-> body]])>>] :
        t \in {"Int", "Void"}, body \in SemBodies(n)}

SemInit ==
    /\ StIdle
    /\ EmitIdle
    /\ DriverIdle
    /\ LexIdle
    /\ ParseIdle
    /\ sem_program \in SemPrograms(MaxStmts)
    /\ analyzer = SemanticAnalyzerNew
    /\ sem_children = <<>>
    /\ sem_pc = "analyze"

\* One turn of the map of analyze over the declarations of the program.
SemAnalyzeDeclaration ==
    /\ sem_pc = "analyze"
    /\ Len(sem_children) < Len(sem_program.declarations)
    /\ \E r \in {analyze_declaration(analyzer,
                                     sem_program.declarations[Len(sem_children) + 1])} :
          /\ analyzer' = r.a
          /\ sem_children' = Append(sem_children, r.node)
    /\ UNCHANGED <<sem_program, sem_pc, notSem>>

\* The end of analyze: check_for_main_function, and the Program node.
SemCheckMain ==
    /\ sem_pc = "analyze"
    /\ Len(sem_children) = Len(sem_program.declarations)
    /\ analyzer' = check_for_main_function(analyzer)
    /\ sem_pc' = "done"
    /\ UNCHANGED <<sem_program, sem_children, notSem>>

SemNext == SemAnalyzeDeclaration \/ SemCheckMain

SemSpec == SemInit /\ [][SemNext]_vars

\* The return check as the specification words it: a block has a return if
\* one of its top-level statements is a Return, a Block that has a return,
\* or an If whose then-branch and else-branch both have a return.
RECURSIVE BlockHasReturn(_)
RECURSIVE StatementHasReturn(_)
StatementHasReturn(stmt) ==
    CASE stmt.kind = "Return" -> TRUE
      [] stmt.kind = "Block" -> BlockHasReturn(stmt.value)
      [] stmt.kind = "If" ->
            /\ BlockHasReturn(stmt.value.then_block)
            /\ stmt.value.else_block # None
            /\ IF Unwrap(stmt.value.else_block).kind = "Block"
               THEN StatementHasReturn(Unwrap(stmt.value.else_block).value)
               ELSE StatementHasReturn(Variant("If", Unwrap(stmt.value.else_block).value))
      [] OTHER -> FALSE

BlockHasReturn(block) ==
    \E i \in 1..Len(block.statements) :
        /\ block.statements[i].kind = "Statement"
        /\ StatementHasReturn(block.statements[i].value)

\* The MissingReturnStatement errors recorded for the function func_decl.
MissingReturnsOf(func_decl) ==
    {i \in 1..Len(analyzer.errors) :
        /\ analyzer.errors[i].kind = "MissingReturnStatement"
        /\ analyzer.errors[i].args = <<func_decl.name.name>>
        /\ analyzer.errors[i].line = func_decl.name.line
        /\ analyzer.errors[i].column = func_decl.name.column}

\* C2: for every function of the program that analyze has gone through, one
\* MissingReturnStatement is recorded for it if its return type is not Void
\* and its body block has no guaranteed return (a Return, a Block with a
\* return, or an If with a return in both branches, at the top level of the
\* block), and none is recorded otherwise.
C2_MissingReturnIffNoGuaranteedReturn ==
    \A i \in 1..Len(sem_children) :
        sem_program.declarations[i].kind = "Function" =>
            Cardinality(MissingReturnsOf(sem_program.declarations[i].value))
                = IF /\ sem_program.declarations[i].value.return_type # "Void"
                     /\ ~BlockHasReturn(sem_program.declarations[i].value.body)
                  THEN 1 ELSE 0

(***************************************************************************)
(* compile run on a source text: scan_tokens, the token filter and         *)
(* parse_tokens                                                            *)
(***************************************************************************)
\* The characters of a word of a source text.
Word(w) ==
    CASE w = "let" -> <<"l", "e", "t">>
      [] w = "const" -> <<"c", "o", "n", "s", "t">>
      [] w = "fn" -> <<"f", "n">>
      [] w = "if" -> <<"i", "f">>
      [] w = "else" -> <<"e", "l", "s", "e">>
      [] w = "while" -> <<"w", "h", "i", "l", "e">>
      [] w = "do" -> <<"d", "o">>
      [] w = "until" -> <<"u", "n", "t", "i", "l">>
      [] w = "struct" -> <<"s", "t", "r", "u", "c", "t">>
      [] w = "return" -> <<"r", "e", "t", "u", "r", "n">>
      [] w = "for" -> <<"f", "o", "r">>
      [] w = "in" -> <<"i", "n">>
      [] w = "true" -> <<"t", "r", "u", "e">>
      [] w = "false" -> <<"f", "a", "l", "s", "e">>
      [] w = "_i" -> <<"_", "i">>
      [] w = "inn" -> <<"i", "n", "n">>
      [] w = "main" -> <<"m", "a", "i", "n">>
      [] w = "int" -> <<"i", "n", "t">>
      [] w = "void" -> <<"v", "o", "i", "d">>
      [] w = "->" -> <<"-", ">">>
      [] w = "++" -> <<"+", "+">>
      [] w = "--" -> <<"-", "-">>
      [] OTHER -> <<w>>

SourceOf(words) == JoinWords([i \in 1..Len(words) |-> Word(words[i])])

\* The words the language reserves.
BooleanWords == {"true", "false"}

ReservedWords ==
    {"let", "const", "fn", "if", "else", "while", "do", "until", "struct", "return",
     "for", "in"}

\* The pieces the statements of the source texts are made of.
CompileBodies == {<<>>, <<"y", ";">>}

CompileConditions == {<<"a">>, <<"a", ">", "b">>, <<"1">>}

CompileIterables ==
    {<<"a">>, <<"1">>, <<"(", "a", ")">>, <<"a", ".", "b">>, <<"f", "(", ")">>}

CompileTargets ==
    {<<"x">>, <<"x", ".", "y">>, <<"1">>, <<"(", "x", ")">>, <<"f", "(", ")">>}

\* The source texts compile is run on: a word alone, a do-until loop, a for
\* loop, an if or a while with a bare or a parenthesized condition, an
\* assignment, and an increment or a decrement.
CompileSources ==
    {SourceOf(<<w>>) : w \in BooleanWords \cup ReservedWords \cup {"x", "_i", "inn"}}
        \cup {SourceOf(<<"do", "{">> \o b \o <<"}", "until">> \o c \o <<";">>) :
                 b \in CompileBodies, c \in CompileConditions}
        \cup {SourceOf(<<"for", "x", "in">> \o e \o <<"{">> \o b \o <<"}">>) :
                 e \in CompileIterables, b \in CompileBodies}
        \cup {SourceOf(<<k>> \o c \o <<"{">> \o b \o <<"}">>) :
                 k \in {"if", "while"}, c \in CompileConditions, b \in CompileBodies}
        \cup {SourceOf(<<k, "(">> \o c \o <<")", "{">> \o b \o <<"}">>) :
                 k \in {"if", "while"}, c \in CompileConditions, b \in CompileBodies}
        \cup {SourceOf(t \o <<"=", "1", ";">>) : t \in CompileTargets}
        \cup {SourceOf(t \o <<op, ";">>) : t \in CompileTargets, op \in {"++", "--"}}

CompileInit ==
    /\ StIdle
    /\ EmitIdle
    /\ DriverIdle
    /\ ParseIdle
    /\ SemIdle
    /\ lex_source \in CompileSources
    /\ lexer = LexicalAnalyzerNew(lex_source)
    /\ lex_tokens = <<>>
    /\ lex_starts = <<>>
    /\ lex_pc = "scan"

\* The tokens of the lexer are filtered and handed to parse_tokens.
CompileParse ==
    /\ lex_pc = "done"
    /\ parse_pc = "idle"
    /\ parser' = ParserNew(FilterTokens(lex_tokens))
    /\ parse_pc' = "parse"
    /\ UNCHANGED <<declarations, parse_turn, notParse>>

CompileNext ==
    \/ LexScanToken
    \/ LexFinish
    \/ CompileParse
    \/ ParseDeclaration
    \/ ParseReturn

CompileSpec == CompileInit /\ [][CompileNext]_vars

\* The source text of token i of the lexer.
LexText(i) == SubSeq(lex_source, lex_starts[i], LexEnd(i) - 1)

\* The tokens of the lexer whose text has the shape of an identifier.
IdentifierShaped ==
    {i \in 1..Len(lex_starts) :
        /\ lex_source[lex_starts[i]] \in Letters \cup {"_"}
        /\ \A k \in 1..Len(LexText(i)) : LexText(i)[k] \in Letters \cup Digits \cup {"_"}}

\* C11: a token whose text has the shape of an identifier is a Boolean when
\* the text is true or false, a Keyword when it is one of the other reserved
\* words (let, const, fn, if, else, while, do, until, struct, return, for,
\* in) and an Identifier otherwise.
C11_ReservedWordsClassified ==
    \A i \in IdentifierShaped :
        lex_tokens[i].token_type =
            IF lex_tokens[i].lexeme \in {Word(w) : w \in BooleanWords} THEN "Boolean"
            ELSE IF lex_tokens[i].lexeme \in {Word(w) : w \in ReservedWords} THEN "Keyword"
            ELSE "Identifier"

\* The do-until loops among the source texts, by body and condition.
DoUntilSource(b, c) == SourceOf(<<"do", "{">> \o b \o <<"}", "until">> \o c \o <<";">>)

\* C12: once compile has lexed, filtered and parsed the text
\* do { BODY } until COND; the program is one DoUntil statement with the
\* statements of BODY as its body, and the list of syntax errors is empty.
C12_DoUntilParses ==
    \A b \in CompileBodies, c \in CompileConditions :
        (lex_source = DoUntilSource(b, c) /\ parse_pc = "done") =>
            /\ parser.errors = <<>>
            /\ Len(declarations) = 1
            /\ declarations[1].kind = "Statement"
            /\ declarations[1].value.kind = "DoUntil"
            /\ Len(declarations[1].value.value.body.statements) = Len(b) \div 2

\* The for loops among the source texts, by iterable and body.
ForSource(e, b) == SourceOf(<<"for", "x", "in">> \o e \o <<"{">> \o b \o <<"}">>)

\* C13: once compile has parsed the text for x in E { BODY }, for each of
\* the iterables E (a bare identifier directly followed by the brace among
\* them), the program is one For statement with the loop variable x and the
\* statements of BODY as its body, and the list of syntax errors is empty.
C13_ForParses ==
    \A e \in CompileIterables, b \in CompileBodies :
        (lex_source = ForSource(e, b) /\ parse_pc = "done") =>
            /\ parser.errors = <<>>
            /\ Len(declarations) = 1
            /\ declarations[1].kind = "Statement"
            /\ declarations[1].value.kind = "For"
            /\ declarations[1].value.value.variable.name = <<"x">>
            /\ Len(declarations[1].value.value.body.statements) = Len(b) \div 2

\* The if and while statements among the source texts, with a bare and with
\* a parenthesized condition.
BareSource(k, c, b) == SourceOf(<<k>> \o c \o <<"{">> \o b \o <<"}">>)

ParenSource(k, c, b) == SourceOf(<<k, "(">> \o c \o <<")", "{">> \o b \o <<"}">>)

\* The program is the one statement of the kind the word k starts.
OneConditional(k) ==
    /\ parser.errors = <<>>
    /\ Len(declarations) = 1
    /\ declarations[1].kind = "Statement"
    /\ declarations[1].value.kind = IF k = "if" THEN "If" ELSE "While"

\* C14: an if and a while statement parse without error with a bare
\* condition and with a parenthesized condition, and the parenthesized
\* condition is a Grouped expression in the statement.
C14_ConditionalsParse ==
    \A k \in {"if", "while"}, c \in CompileConditions, b \in CompileBodies :
        parse_pc = "done" =>
            /\ lex_source = BareSource(k, c, b) => OneConditional(k)
            /\ lex_source = ParenSource(k, c, b) =>
                  /\ OneConditional(k)
                  /\ declarations[1].value.value.condition.kind = "Grouped"

\* The assignments among the source texts, by target.
AssignmentSource(t) == SourceOf(t \o <<"=", "1", ";">>)

\* C15: an assignment whose left side is an Identifier or a MemberAccess
\* parses to one expression statement that is an Assignment, without a syntax
\* error; an assignment with another left side yields no declaration.
C15_AssignmentTargets ==
    \A t \in CompileTargets :
        (lex_source = AssignmentSource(t) /\ parse_pc = "done") =>
            IF t \in {<<"x">>, <<"x", ".", "y">>}
            THEN /\ parser.errors = <<>>
                 /\ Len(declarations) = 1
                 /\ declarations[1].kind = "Statement"
                 /\ declarations[1].value.kind = "Expression"
                 /\ declarations[1].value.value.kind = "Assignment"
            ELSE declarations = <<>>

(***************************************************************************)
(* analyze run on a program of declarations                                *)
(***************************************************************************)
\* The declarations a program is made of, in a list, as parse_tokens builds
\* them for a declaration written on one line of the source text, the line given, with
\* one space between its tokens:
\*   let x = V;  let x : T = V;  const x = 1;  const x : T = 1;  let main = 1;
\*   fn main(P) -> R { return 1; }  fn g() -> int { return 1; }
\*   fn g() -> bool { return true; }  g();  h();  let x = g();
\*   { let x = 1; }  { let x = 1; let x = 1; }  fn g() -> void { let x = 1; }
\*   for i in 1 { let x = 1; }  1 + true;  x + 1;  return 1;
\*   if (c) { d; } else { e; }  fn g() -> void { if (c) { d; } else { e; } }
\* where V is 1 or true, T is a type name, P is nothing or p : int, and R is
\* int or void.
SemDeclarations(line) ==
    LET one == Variant("Literal", Variant("Int", <<"1">>))
        true == Variant("Literal", Variant("Bool", TRUE))
        Id(name, column) == [name |-> name, line |-> line, column |-> column]
        Name(name, column) == Variant("Identifier", Id(name, column))
        Let(name, column, type, value) ==
            Variant("Variable", [identifier |-> Id(name, column), var_type |-> type,
                                 value |-> value])
        Const(name, column, type, value) ==
            Variant("Constant", [identifier |-> Id(name, column), const_type |-> type,
                                 value |-> value])
        Stmt(kind, value) == Variant("Statement", Variant(kind, value))
        Block(statements) == [statements |-> statements]
        Fn(name, params, type, statements) ==
            Variant("Function", [name |-> Id(name, 4), parameters |-> params,
                                 return_type |-> type, body |-> Block(statements)])
        Call(name, column) ==
            [kind |-> "FunctionCall", function |-> Name(name, column), arguments |-> <<>>]
        ret(value) == Stmt("Return", [value |-> value])
        Use(name, column) == Stmt("Expression", Name(name, column))
        IfElse(offset) ==
            Stmt("If", [condition |-> Name(<<"c">>, offset + 6),
                        then_block |-> Block(<<Use(<<"d">>, offset + 12)>>),
                        else_block |->
                            Some(Variant("Block",
                                         Variant("Block",
                                                 Block(<<Use(<<"e">>, offset + 25)>>))))])
        main == <<"m", "a", "i", "n">>
        p == <<[name |-> Id(<<"p">>, 11), param_type |-> "Int"]>>
        types == <<None, Some("Int"), Some("Float"), Some("String"), Some("Bool"),
                   Some("Void")>>
    IN  [i \in 1..6 |-> Let(<<"x">>, 5, types[i], one)]
        \o [i \in 1..6 |-> Let(<<"x">>, 5, types[i], true)]
        \o [i \in 1..6 |-> Const(<<"x">>, 7, types[i], one)]
        \o <<Let(main, 5, None, one),
             Fn(main, <<>>, "Int", <<ret(one)>>),
             Fn(main, <<>>, "Void", <<ret(one)>>),
             Fn(main, p, "Int", <<ret(one)>>),
             Fn(main, p, "Void", <<ret(one)>>),
             Fn(<<"g">>, <<>>, "Int", <<ret(one)>>),
             Fn(<<"g">>, <<>>, "Bool", <<ret(true)>>),
             Fn(<<"g">>, <<>>, "Void", <<Let(<<"x">>, 24, None, one)>>),
             Stmt("Expression", Call(<<"g">>, 1)),
             Stmt("Expression", Call(<<"h">>, 1)),
             Let(<<"x">>, 5, None, Call(<<"g">>, 9)),
             Stmt("Block", Block(<<Let(<<"x">>, 7, None, one)>>)),
             Stmt("Block", Block(<<Let(<<"x">>, 7, None, one), Let(<<"x">>, 19, None, one)>>)),
             Stmt("For", [variable |-> Id(<<"i">>, 5), iterable |-> one,
                          body |-> Block(<<Let(<<"x">>, 18, None, one)>>)]),
             Stmt("Expression", Binary(one, "Plus", true)),
             Stmt("Expression", Binary(Name(<<"x">>, 1), "Plus", one)),
             ret(one),
             IfElse(0),
             Fn(<<"g">>, <<>>, "Void", <<IfElse(19)>>)>>

\* The program whose declaration i is declaration choice[i] of line i.
DeclProgram(choice) ==
    [declarations |-> [i \in 1..Len(choice) |-> SemDeclarations(i)[choice[i]]]]

DeclInit ==
    /\ StIdle
    /\ EmitIdle
    /\ DriverIdle
    /\ LexIdle
    /\ ParseIdle
    /\ \E k \in 0..MaxDecls :
          \E choice \in [1..k -> 1..Len(SemDeclarations(1))] :
             sem_program = DeclProgram(choice)
    /\ analyzer = SemanticAnalyzerNew
    /\ sem_children = <<>>
    /\ sem_pc = "analyze"

DeclSpec == DeclInit /\ [][SemNext]_vars

\* The symbol main is bound to at the end of analyze, if any.
MainSymbol == SymbolTableLookup(analyzer.symbol_table, <<"m", "a", "i", "n">>)

\* The errors of a kind among the errors recorded.
ErrorsOfKind(kind) == {i \in 1..Len(analyzer.errors) : analyzer.errors[i].kind = kind}

\* C16: after analyze exactly one of these holds: main is bound to a
\* Function without parameters and of return type Int and neither
\* MissingMainFunction nor InvalidMainFunctionSignature is recorded; main is
\* unbound or bound to a symbol that is no Function and MissingMainFunction
\* is recorded once and InvalidMainFunctionSignature is not; main is bound to
\* a Function with parameters or another return type and
\* InvalidMainFunctionSignature is recorded once and MissingMainFunction is
\* not.
C16_MainFunctionCheck ==
    sem_pc = "done" =>
        IF MainSymbol # None /\ Unwrap(MainSymbol).kind = "Function"
        THEN IF Unwrap(MainSymbol).parameters = <<>> /\ Unwrap(MainSymbol).return_type = "Int"
             THEN /\ ErrorsOfKind("MissingMainFunction") = {}
                  /\ ErrorsOfKind("InvalidMainFunctionSignature") = {}
             ELSE /\ ErrorsOfKind("MissingMainFunction") = {}
                  /\ Cardinality(ErrorsOfKind("InvalidMainFunctionSignature")) = 1
        ELSE /\ Cardinality(ErrorsOfKind("MissingMainFunction")) = 1
             /\ ErrorsOfKind("InvalidMainFunctionSignature") = {}

\* analyze has ended on a program whose main has no parameters and the
\* return type Void, after the declaration of a variable, and has recorded
\* the signature of main as invalid.
C16_Witness ==
    /\ sem_pc = "done"
    /\ Len(sem_program.declarations) = 2
    /\ sem_program.declarations[1].kind = "Variable"
    /\ MainSymbol # None
    /\ Unwrap(MainSymbol).kind = "Function"
    /\ Unwrap(MainSymbol).parameters = <<>>
    /\ Unwrap(MainSymbol).return_type = "Void"
    /\ Cardinality(ErrorsOfKind("InvalidMainFunctionSignature")) = 1

\* The declaration analyze has just gone through is the expression
\* statement of a call of an identifier.
CallAnalyzed ==
    /\ sem_pc = "analyze"
    /\ Len(sem_children) > 0
    /\ sem_program.declarations[Len(sem_children)].kind = "Statement"
    /\ sem_program.declarations[Len(sem_children)].value.kind = "Expression"
    /\ sem_program.declarations[Len(sem_children)].value.value.kind = "FunctionCall"
    /\ sem_program.declarations[Len(sem_children)].value.value.function.kind = "Identifier"

\* The symbol the callee of that call is bound to, if any.
CalleeSymbol ==
    SymbolTableLookup(analyzer.symbol_table,
                      sem_program.declarations[Len(sem_children)].value.value.function.value.name)

\* C17: the analysis of a call whose callee identifier is bound to no symbol
\* records UndefinedFunction; when the callee is bound to a function, the type
\* inferred for the call is the return type of the function and no
\* UndefinedFunction is recorded.
C17_CallResolution ==
    CallAnalyzed =>
        IF CalleeSymbol = None THEN ErrorsOfKind("UndefinedFunction") # {}
        ELSE Unwrap(CalleeSymbol).kind = "Function" =>
                /\ InferredType(sem_children[Len(sem_children)])
                      = Unwrap(CalleeSymbol).return_type
                /\ ErrorsOfKind("UndefinedFunction") = {}

\* The type a variable or constant declaration declares, if any.
DeclaredType(decl) ==
    IF decl.kind = "Variable" THEN decl.value.var_type ELSE decl.value.const_type

\* The TypeMismatch errors recorded at the position of an identifier.
TypeMismatchesAt(identifier) ==
    {i \in ErrorsOfKind("TypeMismatch") :
        /\ analyzer.errors[i].line = identifier.line
        /\ analyzer.errors[i].column = identifier.column}

\* C18: for every variable and constant declaration analyze has gone
\* through, with the declared type T and the initializer of type U: when T is
\* given (Int, Float, String, Bool or Void) and differs from U, one
\* TypeMismatch(T, U) is recorded at the position of the identifier; when T
\* is U or no type is declared, none is.
C18_DeclaredTypeMismatch ==
    \A j \in 1..Len(sem_children) :
        sem_program.declarations[j].kind \in {"Variable", "Constant"} =>
            IF /\ DeclaredType(sem_program.declarations[j]) # None
               /\ Unwrap(DeclaredType(sem_program.declarations[j]))
                     # InferredType(sem_children[j])
            THEN /\ Cardinality(TypeMismatchesAt(sem_program.declarations[j].value.identifier)) = 1
                 /\ \A i \in TypeMismatchesAt(sem_program.declarations[j].value.identifier) :
                       analyzer.errors[i].args
                           = <<Unwrap(DeclaredType(sem_program.declarations[j])),
                               InferredType(sem_children[j])>>
            ELSE TypeMismatchesAt(sem_program.declarations[j].value.identifier) = {}

\* The identifier a declaration binds in its scope, if it binds one.
DeclaredIdentifier(decl) ==
    CASE decl.kind \in {"Variable", "Constant"} -> Some(decl.value.identifier)
      [] decl.kind \in {"Function", "Struct"} -> Some(decl.value.name)
      [] OTHER -> None

\* The blocks of a declaration, each a scope of its own.
NestedBlocks(decl) ==
    CASE decl.kind = "Function" -> <<decl.value.body>>
      [] decl.kind = "Statement" /\ decl.value.kind = "Block" -> <<decl.value.value>>
      [] decl.kind = "Statement" /\ decl.value.kind \in {"While", "For"} ->
            <<decl.value.value.body>>
      [] OTHER -> <<>>

\* The identifiers of the variable, constant and function declarations of a
\* list of declarations, and of the blocks in them, whose name an earlier
\* declaration of the same scope has bound; seen are the names bound so far.
RECURSIVE RedeclaredIn(_, _)
RedeclaredIn(decls, seen) ==
    IF decls = <<>> THEN {}
    ELSE LET decl == Head(decls)
             id == DeclaredIdentifier(decl)
         IN  (IF id # None /\ decl.kind # "Struct" /\ Unwrap(id).name \in seen
              THEN {Unwrap(id)} ELSE {})
             \cup UNION {RedeclaredIn(NestedBlocks(decl)[k].statements, {}) :
                            k \in 1..Len(NestedBlocks(decl))}
             \cup RedeclaredIn(Tail(decls),
                               IF id # None THEN seen \cup {Unwrap(id).name} ELSE seen)

\* The RedeclaredVariable errors recorded for an identifier.
RedeclaredAt(identifier) ==
    {i \in ErrorsOfKind("RedeclaredVariable") :
        /\ analyzer.errors[i].args = <<identifier.name>>
        /\ analyzer.errors[i].line = identifier.line
        /\ analyzer.errors[i].column = identifier.column}

\* C19: of the declarations analyze has gone through, each declaration of a
\* name that an earlier declaration of the same scope has bound has one
\* RedeclaredVariable recorded at its identifier, and no other
\* RedeclaredVariable is recorded: none for a name declared again in a
\* nested scope (a block, a function body, the body of a for loop).
C19_RedeclaredInSameScope ==
    /\ \A id \in RedeclaredIn(SubSeq(sem_program.declarations, 1, Len(sem_children)), {}) :
          Cardinality(RedeclaredAt(id)) = 1
    /\ \A i \in ErrorsOfKind("RedeclaredVariable") :
          [name |-> analyzer.errors[i].args[1], line |-> analyzer.errors[i].line,
           column |-> analyzer.errors[i].column]
              \in RedeclaredIn(SubSeq(sem_program.declarations, 1, Len(sem_children)), {})

\* analyze has ended on a program that declares x and then, in a block,
\* declares x twice: the one RedeclaredVariable recorded is at the second
\* declaration of the block.
C19_Witness ==
    /\ sem_pc = "done"
    /\ Len(sem_program.declarations) = 2
    /\ sem_program.declarations[1].kind = "Variable"
    /\ sem_program.declarations[1].value.identifier.name = <<"x">>
    /\ sem_program.declarations[2].kind = "Statement"
    /\ sem_program.declarations[2].value.kind = "Block"
    /\ Len(sem_program.declarations[2].value.value.statements) = 2
    /\ Cardinality(ErrorsOfKind("RedeclaredVariable")) = 1
    /\ RedeclaredAt([name |-> <<"x">>, line |-> 2, column |-> 19]) # {}

\* C20: every error analyze records with a position, for a program whose
\* tokens are all at a line and a column of 1 or more, has a line and a
\* column of 1 or more; so have the TypeMismatch of a binary expression and
\* the errors positioned at a literal.
C20_ErrorPositionsOneBased ==
    \A i \in 1..Len(analyzer.errors) :
        "line" \in DOMAIN analyzer.errors[i] =>
            analyzer.errors[i].line >= 1 /\ analyzer.errors[i].column >= 1

\* The positions of the identifiers an expression reads or assigns.
RECURSIVE ExprPositions(_)
ExprPositions(e) ==
    CASE e.kind = "Identifier" -> {<<e.value.line, e.value.column>>}
      [] e.kind = "Binary" -> ExprPositions(e.left) \cup ExprPositions(e.right)
      [] e.kind = "Grouped" -> ExprPositions(e.value)
      [] e.kind = "Assignment" ->
            {<<e.target.line, e.target.column>>} \cup ExprPositions(e.value)
      [] e.kind = "FunctionCall" ->
            UNION {ExprPositions(e.arguments[k]) : k \in 1..Len(e.arguments)}
      [] OTHER -> {}

\* The positions of the identifiers of a declaration, of the statements of a
\* block and of the else branch of an if statement.
RECURSIVE DeclPositions(_)
RECURSIVE BlockPositions(_)
RECURSIVE ElsePositions(_)
DeclPositions(decl) ==
    CASE decl.kind \in {"Variable", "Constant"} ->
            {<<decl.value.identifier.line, decl.value.identifier.column>>}
                \cup ExprPositions(decl.value.value)
      [] decl.kind = "Function" ->
            {<<decl.value.name.line, decl.value.name.column>>}
                \cup BlockPositions(decl.value.body)
      [] decl.kind = "Statement" /\ decl.value.kind \in {"Expression"} ->
            ExprPositions(decl.value.value)
      [] decl.kind = "Statement" /\ decl.value.kind = "Return" ->
            ExprPositions(decl.value.value.value)
      [] decl.kind = "Statement" /\ decl.value.kind = "Block" ->
            BlockPositions(decl.value.value)
      [] decl.kind = "Statement" /\ decl.value.kind = "If" ->
            ExprPositions(decl.value.value.condition)
                \cup BlockPositions(decl.value.value.then_block)
                \cup ElsePositions(decl.value.value.else_block)
      [] decl.kind = "Statement" /\ decl.value.kind = "While" ->
            ExprPositions(decl.value.value.condition)
                \cup BlockPositions(decl.value.value.body)
      [] decl.kind = "Statement" /\ decl.value.kind = "For" ->
            ExprPositions(decl.value.value.iterable)
                \cup BlockPositions(decl.value.value.body)
      [] OTHER -> {}

BlockPositions(block) ==
    UNION {DeclPositions(block.statements[k]) : k \in 1..Len(block.statements)}

ElsePositions(else_block) ==
    IF else_block = None THEN {}
    ELSE DeclPositions(Variant("Statement",
                               IF Unwrap(else_block).kind = "Block" THEN Unwrap(else_block).value
                               ELSE Variant("If", Unwrap(else_block).value)))

\* The if statements of a list of declarations, those of the function
\* bodies and of the blocks among them.
RECURSIVE IfStatements(_)
IfStatements(decls) ==
    IF decls = <<>> THEN <<>>
    ELSE LET decl == Head(decls)
         IN  (CASE decl.kind = "Function" -> IfStatements(decl.value.body.statements)
                [] decl.kind = "Statement" /\ decl.value.kind = "Block" ->
                      IfStatements(decl.value.value.statements)
                [] decl.kind = "Statement" /\ decl.value.kind = "If" ->
                      <<decl.value.value>>
                          \o IfStatements(decl.value.value.then_block.statements)
                [] OTHER -> <<>>)
             \o IfStatements(Tail(decls))

\* Every error recorded at a position of the set early is recorded before
\* every error at a position of the set late.
ErrorsPrecede(early, late) ==
    \A i, j \in 1..Len(analyzer.errors) :
        (/\ "line" \in DOMAIN analyzer.errors[i]
         /\ "line" \in DOMAIN analyzer.errors[j]
         /\ <<analyzer.errors[i].line, analyzer.errors[i].column>> \in early
         /\ <<analyzer.errors[j].line, analyzer.errors[j].column>> \in late) => i < j

\* C21: for every if statement of the program, at the top level and in a
\* function body, the errors recorded for its condition precede the errors
\* recorded for its then-branch, and these precede the errors recorded for
\* its else-branch.
C21_IfErrorsInPreOrder ==
    \A k \in 1..Len(IfStatements(sem_program.declarations)) :
        LET if_stmt == IfStatements(sem_program.declarations)[k]
        IN  /\ ErrorsPrecede(ExprPositions(if_stmt.condition),
                             BlockPositions(if_stmt.then_block))
            /\ ErrorsPrecede(ExprPositions(if_stmt.condition),
                             ElsePositions(if_stmt.else_block))
            /\ ErrorsPrecede(BlockPositions(if_stmt.then_block),
                             ElsePositions(if_stmt.else_block))

(***************************************************************************)
(* dreamcc: compile and main                                               *)
(***************************************************************************)
\* The source files dreamcc is run on.
DriverSources ==
    {SourceOf(words) : words \in
        {<<"fn", "main", "(", ")", "->", "int", "{", "return", "1", ";", "}">>,
         <<"fn", "main", "(", ")", "->", "int", "{", "return", "y", ";", "}">>,
         <<"1", ";", "fn", "main", "(", ")", "->", "int", "{", "return", "1", ";", "}">>,
         <<"let", "x", "=", "1", ";">>,
         <<"let", "x", "=", ";">>,
         <<"let", "x", "=", ";", "y", ";">>}}

\* Cli::parse, and the source file read.
DriverInit ==
    /\ StIdle
    /\ ParseIdle
    /\ SemIdle
    /\ EmitIdle
    /\ cli \in [lex_only : BOOLEAN, parse_only : BOOLEAN, semantic_only : BOOLEAN]
    /\ ir_written = FALSE
    /\ exit_code = None
    /\ lex_source \in DriverSources
    /\ lexer = LexicalAnalyzerNew(lex_source)
    /\ lex_tokens = <<>>
    /\ lex_starts = <<>>
    /\ lex_pc = "scan"

\* main: the process ends with code 0 on Ok and with code 1 on Err.
Exit(code) ==
    /\ exit_code = None
    /\ exit_code' = Some(code)
    /\ UNCHANGED <<cli, ir_written>>

DriverLex ==
    /\ exit_code = None
    /\ LexScanToken \/ LexFinish

DriverLexOnly ==
    /\ lex_pc = "done"
    /\ cli.lex_only
    /\ Exit(0)
    /\ UNCHANGED <<stVars, lexVars, parseVars, semVars, emitVars>>

DriverParse ==
    /\ exit_code = None
    /\ ~cli.lex_only
    /\ CompileParse \/ ParseDeclaration \/ ParseReturn

DriverSyntaxErrors ==
    /\ parse_pc = "done"
    /\ parser.errors # <<>>
    /\ Exit(1)
    /\ UNCHANGED <<stVars, lexVars, parseVars, semVars, emitVars>>

DriverParseOnly ==
    /\ parse_pc = "done"
    /\ parser.errors = <<>>
    /\ cli.parse_only
    /\ Exit(0)
    /\ UNCHANGED <<stVars, lexVars, parseVars, semVars, emitVars>>

\* SemanticAnalyzer::new, and analyze up to its loop.
DriverAnalyze ==
    /\ exit_code = None
    /\ parse_pc = "done"
    /\ parser.errors = <<>>
    /\ ~cli.parse_only
    /\ sem_pc = "idle"
    /\ analyzer' = SemanticAnalyzerNew
    /\ sem_program' = [declarations |-> declarations]
    /\ sem_children' = <<>>
    /\ sem_pc' = "analyze"
    /\ UNCHANGED notSem

\* DriverSemanticErrors with the Err of the semantic errors dropped: the
\* driver goes on to the IR as if the analyzer had found nothing.
MutSemanticErrorsIgnored ==
    /\ sem_pc = "done"
    /\ analyzer.errors # <<>>
    /\ emit_pc = "idle"
    /\ exit_code = None
    /\ compiler' = CompilerNew
    /\ emit_pc' = "emit"
    /\ UNCHANGED <<emit_turn, emit_error, notEmit>>

DriverSemanticErrors ==
    /\ sem_pc = "done"
    /\ analyzer.errors # <<>>
    /\ Exit(1)
    /\ UNCHANGED <<stVars, lexVars, parseVars, semVars, emitVars>>

DriverSemanticOnly ==
    /\ sem_pc = "done"
    /\ analyzer.errors = <<>>
    /\ cli.semantic_only
    /\ Exit(0)
    /\ UNCHANGED <<stVars, lexVars, parseVars, semVars, emitVars>>

\* ctx.setup()?, which may fail, and compile_to_llvm_ir up to the loop of
\* Compiler::compile.
DriverSetup ==
    /\ sem_pc = "done"
    /\ analyzer.errors = <<>>
    /\ ~cli.semantic_only
    /\ emit_pc = "idle"
    /\ \E made \in BOOLEAN :
          IF made
          THEN /\ exit_code = None
               /\ compiler' = CompilerNew
               /\ emit_pc' = "emit"
               /\ UNCHANGED <<emit_turn, emit_error, notEmit>>
          ELSE /\ Exit(1)
               /\ UNCHANGED <<stVars, lexVars, parseVars, semVars, emitVars>>

\* One turn of the loop of Compiler::compile.
EmitDeclaration ==
    /\ emit_pc = "emit"
    /\ emit_turn < Len(sem_program.declarations)
    /\ \E r \in {compile_declaration(compiler, sem_program.declarations[emit_turn + 1])} :
          /\ compiler' = r.c
          /\ emit_turn' = emit_turn + 1
          /\ emit_error' = IF r.ok THEN None ELSE Some(r.value)
          /\ emit_pc' = IF r.ok THEN "emit" ELSE "failed"
    /\ UNCHANGED notEmit

\* The end of Compiler::compile: the module is verified and printed. The
\* functions have been verified one by one.
EmitFinish ==
    /\ emit_pc = "emit"
    /\ emit_turn = Len(sem_program.declarations)
    /\ emit_pc' = "done"
    /\ UNCHANGED <<compiler, emit_turn, emit_error, notEmit>>

DriverEmitFailed ==
    /\ emit_pc = "failed"
    /\ Exit(1)
    /\ UNCHANGED <<stVars, lexVars, parseVars, semVars, emitVars>>

\* fs::write of the IR, which may fail.
DriverWriteIr ==
    /\ emit_pc = "done"
    /\ exit_code = None
    /\ ~ir_written
    /\ \E written \in BOOLEAN :
          /\ ir_written' = written
          /\ exit_code' = IF written THEN None ELSE Some(1)
    /\ UNCHANGED <<cli, stVars, lexVars, parseVars, semVars, emitVars>>

\* The stages after the IR is written: llc and the linker, which may fail.
DriverFinish ==
    /\ ir_written
    /\ \E built \in BOOLEAN : Exit(IF built THEN 0 ELSE 1)
    /\ UNCHANGED <<stVars, lexVars, parseVars, semVars, emitVars>>

DriverSemantic ==
    /\ exit_code = None
    /\ SemAnalyzeDeclaration \/ SemCheckMain

DriverNext ==
    \/ DriverLex
    \/ DriverLexOnly
    \/ DriverParse
    \/ DriverSyntaxErrors
    \/ DriverParseOnly
    \/ DriverAnalyze
    \/ DriverSemantic
    \/ DriverSemanticErrors
    \/ DriverSemanticOnly
    \/ DriverSetup
    \/ EmitDeclaration
    \/ EmitFinish
    \/ DriverEmitFailed
    \/ DriverWriteIr
    \/ DriverFinish

\* The analysis, once begun, runs on to its end, and the process to its exit.
DriverSpec ==
    DriverInit /\ [][DriverNext]_vars /\ WF_vars(DriverSemantic) /\ WF_vars(DriverSemanticErrors)

(***************************************************************************)
(* compile_to_llvm_ir on the programs the analyzer has passed              *)
(***************************************************************************)
\* The declarations the programs given to the emitter are made of, as
\* parse_tokens returns them for a declaration written on the given line
\* with one space between its tokens: top-level variables, constants and
\* functions, and main functions whose bodies read them, call them, declare
\* locals in nested blocks and branch.
EmitDeclarations(line) ==
    LET Num(digit) == Variant("Literal", Variant("Int", <<digit>>))
        true == Variant("Literal", Variant("Bool", TRUE))
        Id(name, column) == [name |-> <<name>>, line |-> line, column |-> column]
        Name(name, column) == Variant("Identifier", Id(name, column))
        Let(name, column, value) ==
            Variant("Variable", [identifier |-> Id(name, column), var_type |-> None,
                                 value |-> value])
        Stmt(kind, value) == Variant("Statement", Variant(kind, value))
        Block(statements) == [statements |-> statements]
        Fn(name, statements) ==
            Variant("Function", [name |-> [name |-> name, line |-> line, column |-> 4],
                                 parameters |-> <<>>, return_type |-> "Int",
                                 body |-> Block(statements)])
        Main(statements) == Fn(<<"m", "a", "i", "n">>, statements)
        ret(value) == Stmt("Return", [value |-> value])
        Set(name, column, value) ==
            Stmt("Expression",
                 [kind |-> "Assignment", target |-> Id(name, column), value |-> value])
        Else(statements) == Some(Variant("Block", Variant("Block", Block(statements))))
        If(condition, statements, else_block) ==
            [condition |-> condition, then_block |-> Block(statements),
             else_block |-> else_block]
    IN  <<Variant("Variable", [identifier |-> Id("y", 5), var_type |-> None, value |-> Num("1")]),
          Variant("Constant", [identifier |-> Id("k", 7), const_type |-> None,
                               value |-> Num("1")]),
          Fn(<<"g">>, <<ret(Num("1"))>>),
          Main(<<ret(Num("1"))>>),
          Main(<<ret(Name("y", 29))>>),
          Main(<<ret(Name("k", 29))>>),
          Main(<<ret([kind |-> "FunctionCall", function |-> Name("g", 29),
                      arguments |-> <<>>])>>),
          Main(<<Let("x", 26, Num("1")), Set("x", 34, Num("2")), ret(Name("x", 49))>>),
          Main(<<Let("x", 26, Num("1")), Stmt("Block", Block(<<Let("x", 40, Num("2"))>>)),
                 ret(Name("x", 57))>>),
          Main(<<Let("x", 26, Num("1")), Stmt("Block", Block(<<Let("x", 40, Num("2"))>>)),
                 Set("x", 50, Num("3")), ret(Num("1"))>>),
          Main(<<Stmt("If", If(true, <<ret(Num("1"))>>, Else(<<ret(Num("2"))>>)))>>),
          Main(<<Stmt("If", If(true, <<>>, None)), ret(Num("1"))>>),
          Main(<<Let("x", 26, Num("1")),
                 Stmt("If", If(Binary(Name("x", 39), "DoubleEqual", Num("1")),
                               <<Set("x", 50, Num("2"))>>, None)),
                 ret(Name("x", 67))>>),
          Main(<<Stmt("If", If(true, <<ret(Num("1")), Let("x", 51, Num("1"))>>, None)),
                 ret(Num("1"))>>),
          Main(<<Stmt("If", If(true, <<ret(Num("1"))>>,
                               Some(Variant("If", If(true, <<ret(Num("2"))>>,
                                                     Else(<<ret(Num("3"))>>))))))>>),
          Main(<<Stmt("If", If(true,
                               <<Stmt("If", If(true, <<ret(Num("1"))>>,
                                               Else(<<ret(Num("2"))>>)))>>,
                               Else(<<ret(Num("3"))>>)))>>)>>

\* The program whose declaration i is declaration choice[i] of line i.
EmitProgram(choice) ==
    [declarations |-> [i \in 1..Len(choice) |-> EmitDeclarations(i)[choice[i]]]]

EmitInit ==
    /\ StIdle
    /\ EmitIdle
    /\ DriverIdle
    /\ LexIdle
    /\ ParseIdle
    /\ \E k \in 1..MaxEmitDecls :
          \E choice \in [1..k -> 1..Len(EmitDeclarations(1))] :
             sem_program = EmitProgram(choice)
    /\ analyzer = SemanticAnalyzerNew
    /\ sem_children = <<>>
    /\ sem_pc = "analyze"

EmitNext ==
    \/ SemAnalyzeDeclaration
    \/ SemCheckMain
    \/ DriverSetup
    \/ EmitDeclaration
    \/ EmitFinish

EmitSpec == EmitInit /\ [][EmitNext]_vars

\* The stages of a run in their order: each stage has begun only when the
\* stage before it is over.
StagesInOrder ==
    /\ parse_pc # "idle" => lex_pc = "done"
    /\ sem_pc # "idle" => parse_pc = "done"
    /\ emit_pc # "idle" => sem_pc = "done"
    /\ ir_written => emit_pc = "done"

\* C22: the stages of dreamcc run in the order lexing, parsing, semantic
\* analysis, IR emission; compile_to_llvm_ir is begun only when the error
\* lists of the parser and of the analyzer are empty; and once the analyzer
\* has recorded an error, no IR is emitted or written and the run ends with
\* exit code 1.
C22_StagesAndSemanticErrors ==
    /\ [](StagesInOrder)
    /\ [](emit_pc # "idle" => parser.errors = <<>> /\ analyzer.errors = <<>>)
    /\ [](analyzer.errors # <<>> =>
            emit_pc = "idle" /\ ~ir_written /\ exit_code \in {None, Some(1)})
    /\ (analyzer.errors # <<>> ~> exit_code = Some(1))

\* A run that ended with code 1 on a semantic error, nothing emitted.
C22_Witness ==
    /\ sem_pc = "done"
    /\ analyzer.errors # <<>>
    /\ exit_code = Some(1)
    /\ emit_pc = "idle"

\* C23: a syntax error does not keep dreamcc from the semantic analysis: a
\* run whose parser recorded an error has run the analyzer by its end.
C23_AnalysisDespiteSyntaxErrors ==
    exit_code # None /\ parse_pc = "done" /\ parser.errors # <<>> => sem_pc = "done"

\* The terminators compile_if builds: the conditional branch to its then
\* block and the branches to its merge block.
BuiltByIf(c, instr) ==
    \/ instr.op = "condbr" /\ c.blocks[instr.then].name = "then"
    \/ instr.op = "br" /\ c.blocks[instr.target].name = "ifcont"

\* C24: the lowering of an if never appends a second terminator to a block:
\* no terminator built by compile_if comes after another terminator of its
\* block, in nested ifs and else-if chains as well.
C24_IfAppendsNoSecondTerminator ==
    \A b \in 1..Len(compiler.blocks) :
        \A k \in 1..Len(compiler.blocks[b].instrs) :
            BuiltByIf(compiler, compiler.blocks[b].instrs[k]) =>
                \A j \in 1..(k - 1) : compiler.blocks[b].instrs[j].op \notin Terminators

\* The function Compiler::compile has just gone through, if any.
EmittedFunction ==
    IF emit_turn > 0 /\ sem_program.declarations[emit_turn].kind = "Function"
    THEN Some(sem_program.declarations[emit_turn].value)
    ELSE None

\* A declaration of name with a literal value.
DeclaresLiteral(decl, name) ==
    /\ decl.kind = "Variable"
    /\ decl.value.identifier.name = name
    /\ decl.value.value.kind = "Literal"

\* A nested block that only declares name.
BlockDeclaring(decl, name) ==
    /\ decl.kind = "Statement"
    /\ decl.value.kind = "Block"
    /\ decl.value.value.statements # <<>>
    /\ \A i \in 1..Len(decl.value.value.statements) :
          DeclaresLiteral(decl.value.value.statements[i], name)

\* An assignment of a literal to a name, or a return of a name or a literal.
PlainUse(decl) ==
    /\ decl.kind = "Statement"
    /\ \/ /\ decl.value.kind = "Expression"
          /\ decl.value.value.kind = "Assignment"
          /\ decl.value.value.value.kind = "Literal"
       \/ /\ decl.value.kind = "Return"
          /\ decl.value.value.value.kind \in {"Identifier", "Literal"}

\* A function body that declares name first, then holds nested blocks that
\* declare name again, and uses of names in the body itself: every use of
\* name in it is in the scope of the first declaration only.
ShadowedInNestedBlock(body, name) ==
    /\ Len(body) > 1
    /\ DeclaresLiteral(body[1], name)
    /\ \E i \in 2..Len(body) : BlockDeclaring(body[i], name)
    /\ \A i \in 2..Len(body) : BlockDeclaring(body[i], name) \/ PlainUse(body[i])

\* The storage of the first declaration of name: the first alloca built for
\* that name, the allocas being numbered as they are built.
FirstStorage(c, name) ==
    CHOOSE ptr \in 1..c.allocas :
        /\ \E k \in 1..Len(c.blocks[1].instrs) :
              /\ c.blocks[1].instrs[k].op = "alloca"
              /\ c.blocks[1].instrs[k].name = name
              /\ c.blocks[1].instrs[k].ptr = ptr
        /\ \A k \in 1..Len(c.blocks[1].instrs) :
              c.blocks[1].instrs[k].op = "alloca" /\ c.blocks[1].instrs[k].name = name =>
                  c.blocks[1].instrs[k].ptr >= ptr

\* The loads and stores of the uses of name in the emitted function.
UsesOf(c, name) ==
    {instr \in UNION {{c.blocks[b].instrs[k] : k \in 1..Len(c.blocks[b].instrs)} :
                         b \in 1..Len(c.blocks)} :
        instr.op \in {"load", "store"} /\ "name" \in DOMAIN instr /\ instr.name = name}

\* C29: the emitter resolves an identifier to the declaration the scope rules
\* of the analyzer resolve it to: in a function body that declares x and
\* then holds a nested block that declares x again, the uses of x in the
\* body load and store the storage of the first x.
C29_OuterStorageAfterNestedBlock ==
    \A name \in {<<"x">>} :
        /\ EmittedFunction # None
        /\ emit_error = None
        /\ ShadowedInNestedBlock(Unwrap(EmittedFunction).body.statements, name)
        => \A instr \in UsesOf(compiler, name) : instr.ptr = FirstStorage(compiler, name)

\* C30: for a program the analyzer has found no error in, every variable and
\* every callee the emitter looks up is found: compile_to_llvm_ir never
\* fails with Undefined variable or Undefined function.
C30_LookupsFound ==
    emit_error # None =>
        Head(Unwrap(emit_error)) \notin {"Undefined variable: ", "Undefined function: "}

(***************************************************************************)
(* parse_tokens on expressions of identifiers and binary operators         *)
(***************************************************************************)
\* The operator tokens of assignment, pipe, spread, logical_or, logical_and,
\* equality, comparison, term and factor, with their lexemes.
PrecOperators ==
    <<LexerToken("Equal", <<"=">>, 0, 0),
      LexerToken("Pipe", <<"|", ">">>, 0, 0),
      LexerToken("Spread", <<".", ".", ".">>, 0, 0),
      LexerToken("DoubleBar", <<"|", "|">>, 0, 0),
      LexerToken("DoubleAmpersand", <<"&", "&">>, 0, 0),
      LexerToken("DoubleEqual", <<"=", "=">>, 0, 0),
      LexerToken("NotEqual", <<"!", "=">>, 0, 0),
      LexerToken("Greater", <<">">>, 0, 0),
      LexerToken("GreaterEqual", <<">", "=">>, 0, 0),
      LexerToken("Less", <<"<">>, 0, 0),
      LexerToken("LessEqual", <<"<", "=">>, 0, 0),
      LexerToken("Plus", <<"+">>, 0, 0),
      LexerToken("Minus", <<"-">>, 0, 0),
      LexerToken("Asterisk", <<"*">>, 0, 0),
      LexerToken("Slash", <<"/">>, 0, 0)>>

\* The tokens of the statement `a op b op c ... ;` on line 1, one space
\* between two tokens, with the EndOfFile token of the lexer.
RECURSIVE PrecTokens(_, _, _)
PrecTokens(ops, tokens, column) ==
    LET operand == LexerToken("Identifier", <<<<"a">>, <<"b">>, <<"c">>, <<"d">>>>[
                                                (Len(tokens) \div 2) + 1],
                              1, column)
    IN  IF ops = <<>>
        THEN tokens \o <<operand, LexerToken("Semicolon", <<";">>, 1, column + 2),
                         LexerToken("EndOfFile", <<>>, 1, column + 3)>>
        ELSE PrecTokens(Tail(ops),
                        tokens \o <<operand,
                                    [PrecOperators[Head(ops)] EXCEPT !.line = 1,
                                                                     !.column = column + 2]>>,
                        column + 3 + Len(PrecOperators[Head(ops)].lexeme))

PrecInit ==
    /\ StIdle
    /\ EmitIdle
    /\ DriverIdle
    /\ LexIdle
    /\ SemIdle
    /\ \E n \in 0..MaxOperators :
          \E ops \in [1..n -> 1..Len(PrecOperators)] :
             parser = ParserNew(PrecTokens(ops, <<>>, 1))
    /\ declarations = <<>>
    /\ parse_turn = [turns |-> 0, start |-> 0, advanced |-> TRUE]
    /\ parse_pc = "parse"

PrecSpec == PrecInit /\ [][ParseNext]_vars

\* The level of an operator in the order of the precedences, lowest first:
\* assignment, pipe, spread, ||, &&, equality, relational, additive,
\* multiplicative.
PrecedenceOf(token_type) ==
    CASE token_type = "Equal" -> 0
      [] token_type = "Pipe" -> 1
      [] token_type = "Spread" -> 2
      [] token_type = "DoubleBar" -> 3
      [] token_type = "DoubleAmpersand" -> 4
      [] token_type \in {"DoubleEqual", "NotEqual"} -> 5
      [] token_type \in {"Greater", "GreaterEqual", "Less", "LessEqual"} -> 6
      [] token_type \in {"Plus", "Minus"} -> 7
      [] token_type \in {"Asterisk", "Slash"} -> 8

\* The positions of the operators of operand (operator operand)*.
OperatorsAt(tokens) == {i \in 1..Len(tokens) : i % 2 = 0}

\* The operator an expression is split at: an operator of the lowest
\* precedence in it, the last one for the operators that group to the left
\* and the first one for the assignment, which groups to the right.
SplitAt(tokens) ==
    CHOOSE i \in OperatorsAt(tokens) :
        \A j \in OperatorsAt(tokens) :
            \/ PrecedenceOf(tokens[j].token_type) > PrecedenceOf(tokens[i].token_type)
            \/ /\ PrecedenceOf(tokens[j].token_type) = PrecedenceOf(tokens[i].token_type)
               /\ IF tokens[i].token_type = "Equal" THEN i <= j ELSE j <= i

\* The tree the precedences and the associativities give to
\* operand (operator operand)*.
RECURSIVE GroupedTree(_)
GroupedTree(tokens) ==
    IF Len(tokens) = 1 THEN Variant("Identifier", Identifier(tokens[1]))
    ELSE IF tokens[SplitAt(tokens)].token_type = "Equal"
    THEN [kind |-> "Assignment", target |-> Identifier(tokens[1]),
          value |-> GroupedTree(SubSeq(tokens, SplitAt(tokens) + 1, Len(tokens)))]
    ELSE Binary(GroupedTree(SubSeq(tokens, 1, SplitAt(tokens) - 1)),
                tokens[SplitAt(tokens)].token_type,
                GroupedTree(SubSeq(tokens, SplitAt(tokens) + 1, Len(tokens))))

\* The assignments of the expression all have a lone identifier as target.
TargetsAreIdentifiers(tokens) ==
    \A i \in OperatorsAt(tokens) :
        tokens[i].token_type = "Equal" =>
            \A j \in OperatorsAt(tokens) : j < i => tokens[j].token_type = "Equal"

\* The tokens of the expression of the statement given to the parser.
PrecExpression == SubSeq(parser.tokens, 1, Len(parser.tokens) - 2)

\* C25: the binary operators bind, from the loosest to the tightest, as pipe,
\* spread, ||, &&, equality, relational, additive, multiplicative; the
\* operators of one level group to the left and the assignment groups to the
\* right: the statement the parser returns for an expression of identifiers
\* and operators is the tree these rules give, and no error is recorded.
C25_PrecedenceAndAssociativity ==
    parse_pc = "done" /\ TargetsAreIdentifiers(PrecExpression) =>
        /\ parser.errors = <<>>
        /\ declarations =
               <<Variant("Statement", Variant("Expression", GroupedTree(PrecExpression)))>>

\* The statement a + b * c ; parsed as a + (b * c).
C25_Witness ==
    /\ parse_pc = "done"
    /\ Len(PrecExpression) = 5
    /\ PrecExpression[2].token_type = "Plus"
    /\ PrecExpression[4].token_type = "Asterisk"
    /\ declarations # <<>>
    /\ declarations[1].value.value.kind = "Binary"
    /\ declarations[1].value.value.op = "Plus"
    /\ declarations[1].value.value.right.kind = "Binary"
    /\ declarations[1].value.value.right.op = "Asterisk"

\* The targets that are l-values, with the expressions they are parsed to at
\* the start of line 1.
LValues ==
    <<[words |-> <<"x">>,
       node |-> Variant("Identifier", [name |-> <<"x">>, line |-> 1, column |-> 1])],
      [words |-> <<"x", ".", "y">>,
       node |-> [kind |-> "MemberAccess",
                 object |-> Variant("Identifier", [name |-> <<"x">>, line |-> 1, column |-> 1]),
                 property |-> [name |-> <<"y">>, line |-> 1, column |-> 5]]]>>

\* The targets that are no l-values.
NonLValues == {<<"1">>, <<"(", "x", ")">>, <<"f", "(", ")">>}

\* C26: t++ and t-- on an l-value t, an identifier or a member access, are
\* parsed to an assignment to t of t + 1 and of t - 1; on a target that is no
\* l-value they are rejected and no statement is returned.
C26_PostfixIncrement ==
    \A op \in {"++", "--"} :
        /\ \A i \in 1..Len(LValues) :
              parse_pc = "done" /\ lex_source = SourceOf(LValues[i].words \o <<op, ";">>) =>
                  /\ parser.errors = <<>>
                  /\ Len(declarations) = 1
                  /\ declarations[1].kind = "Statement"
                  /\ declarations[1].value.kind = "Expression"
                  /\ declarations[1].value.value.kind = "Assignment"
                  /\ declarations[1].value.value.value =
                         Binary(LValues[i].node, IF op = "++" THEN "Plus" ELSE "Minus",
                                Variant("Literal", Variant("Int", <<"1">>)))
        /\ \A t \in NonLValues :
              parse_pc = "done" /\ lex_source = SourceOf(t \o <<op, ";">>) =>
                  declarations = <<>>

\* The name, the level and the children of a scope, and of its children.
RECURSIVE ScopeTree(_)
ScopeTree(scope) ==
    [name |-> scope.name, level |-> scope.level, parent |-> scope.parent,
     children |-> [i \in 1..Len(scope.children) |-> ScopeTree(scope.children[i])]]

\* The scopes a sequence of declarations enters at a level, in the order
\* they are entered, each with the scopes entered inside it: a function
\* enters a scope for its parameters and one for its body, a block one, a
\* for loop one for its variable and one for its body, an if one for each
\* branch.
RECURSIVE ScopesEntered(_, _)
RECURSIVE ScopesOfIf(_, _)
ScopeEntered(name, level, children) ==
    [name |-> name, level |-> level, parent |-> None, children |-> children]

ScopesOfBlock(block, level) ==
    <<ScopeEntered(<<"block">>, level, ScopesEntered(block.statements, level + 1))>>

ScopesOfIf(if_stmt, level) ==
    ScopesOfBlock(if_stmt.then_block, level)
        \o (IF if_stmt.else_block = None THEN <<>>
            ELSE IF Unwrap(if_stmt.else_block).kind = "If"
            THEN ScopesOfIf(Unwrap(if_stmt.else_block).value, level)
            ELSE ScopesOfBlock(Unwrap(if_stmt.else_block).value.value, level))

ScopesEntered(decls, level) ==
    IF decls = <<>> THEN <<>>
    ELSE (CASE Head(decls).kind = "Function" ->
                 <<ScopeEntered(<<"function: ">> \o Head(decls).value.name.name, level,
                                ScopesOfBlock(Head(decls).value.body, level + 1))>>
            [] Head(decls).kind \in {"Variable", "Constant"} -> <<>>
            [] Head(decls).kind = "Statement" ->
                 CASE Head(decls).value.kind = "Block" ->
                         ScopesOfBlock(Head(decls).value.value, level)
                   [] Head(decls).value.kind = "For" ->
                         <<ScopeEntered(<<"for_loop">>, level,
                                        ScopesOfBlock(Head(decls).value.value.body, level + 1))>>
                   [] Head(decls).value.kind = "If" -> ScopesOfIf(Head(decls).value.value, level)
                   [] Head(decls).value.kind \in {"Expression", "Return"} -> <<>>)
         \o ScopesEntered(Tail(decls), level)

\* C27: the scopes are entered and left in a strictly nested way, each
\* enter_scope with its one leave_scope: between the declarations of the
\* program and at the end of analyze the current scope is the global scope,
\* of level 0, and every scope left is kept as a child of the scope it was
\* entered from, in the order the scopes were entered.
C27_ScopesNestedAndRetained ==
    ScopeTree(analyzer.symbol_table.current_scope) =
        ScopeEntered(<<"global">>, 0,
                     ScopesEntered(SubSeq(sem_program.declarations, 1, Len(sem_children)), 1))

\* The end of analyze on a function whose body holds an if with two branches:
\* the scope of the function holds the scope of the body, which holds the
\* scopes of the branches.
C27_Witness ==
    /\ sem_pc = "done"
    /\ \E i \in 1..Len(analyzer.symbol_table.current_scope.children) :
          LET scope == analyzer.symbol_table.current_scope.children[i]
          IN  /\ Len(scope.children) = 1
              /\ Len(scope.children[1].children) = 2
              /\ scope.children[1].children[2].level = 3

\* C28: an insert that returns false leaves the scope as it was: the symbol
\* the name is bound to after the call is the one it was bound to before.
C28_FailedInsertKeepsBinding ==
    [][st_call'.op = "insert" /\ ~st_ret'.ok =>
          SymbolTableLookup(symbol_table', st_call'.name) =
              SymbolTableLookup(symbol_table, st_call'.name)]_vars


====
